---------------------------- MODULE Spec2Model ----------------------------
(***************************************************************************)
(* A model of the four datafunk batch tools:                               *)
(*   curate_lineages.py         the UK lineage curator                     *)
(*   sam_2_fasta.py             the SAM-to-FASTA consensus builder         *)
(*   gisaid_json_2_metadata.py  the GISAID JSON-to-metadata converter      *)
(*   anonymize_microreact.py    the microreact anonymizer                  *)
(*                                                                         *)
(* Text is modelled as a sequence of symbols.  A symbol is a one-character *)
(* string ("U", "3", "*", "/") or, where the code never looks inside a     *)
(* word, a whole word ("England").  Python dicts are insertion ordered and *)
(* are modelled as sequences of <<key, value>> pairs in insertion order.   *)
(* Each tool has its own specification (SpecCurate, SpecRead, ...), all    *)
(* over the same variables; a tool that is not running stays idle.         *)
(***************************************************************************)
EXTENDS Integers, Sequences, FiniteSets, TLC

VARIABLES
    \* ---- curate_lineages.py
    cpc,                  \* position in curate_lineages
    taxon_list,           \* make_taxon_objects: the taxa read so far
    acc_to_tax,           \* make_taxon_objects: cluster -> its taxa
    acc_name_counts,      \* make_taxon_objects: cluster -> Counter of old lineages
    lin_acc_counts,       \* make_taxon_objects: old lineage -> Counter of clusters
    acc_final_name_dict,  \* per cluster (in acc_name_counts order): list of labels
    new_names,            \* rename_lineages: labels decided by its third branch
    acc_final,            \* name_new_lineages: per cluster, the final label
    test_counter,         \* name_new_lineages: Counter of the retained integers
    outfile,              \* write_to_file: the rows written
    \* ---- sam_2_fasta.py
    spc,                  \* position in get_seq_from_block / get_one_string
    read_pool,            \* which set of SAM lines the caller draws from
    block_size,           \* len(sam_block)
    rlen,                 \* the reference length
    sam_line,             \* get_one_string: the line being transformed
    operations,           \* get_one_string: the parsed CIGAR operations
    op_i,                 \* get_one_string: index of the next operation
    new_seq,              \* get_one_string: the string built so far
    qstart,               \* get_one_string: the query cursor
    rstart,               \* get_one_string: the reference cursor
    block_lines_sites_list, \* get_seq_from_block: one string (or None) per line
    seq_flat,             \* the sequence handed to swap_in_gaps_Ns
    seq_out,              \* the sequence returned
    \* ---- gisaid_json_2_metadata.py
    gpc,                  \* position in gisaid_json_2_metadata
    gerror,               \* the exception or exit that ended the run, if any
    fields,               \* the module-level list of optional fields
    args_csv,             \* "False", or the path of the registry
    csv_file,             \* the registry: its lines, as far as they are read
    json_file,            \* the dump: its records, as far as they are read
    omitted_IDs,          \* the omitted accession IDs ({} also stands for False)
    args_lineages,        \* whether a lineage file is given
    lineages,             \* the lineage table
    csv_keys,             \* get_csv_order_and_record_dict: keys (the header)
    old_records_list,     \* registry accession IDs in file order
    old_records_dict,     \* registry records by accession ID
    all_records_list,     \* dump accession IDs in file order
    all_records_dict,     \* dump records by accession ID
    new_records_list,     \* dump accession IDs not in the registry
    output,               \* the lines written by write_output
    \* ---- the process gisaid_json_2_metadata is invoked in
    invocation,           \* the number of the invocation at hand, from 1
    rerun,                \* whether it is run over the output of the one before
    given_csv,            \* a rerun's registry: the lines the one before wrote
    given_json,           \* a rerun's dump: the records the one before read
    \* ---- get_admin_levels_from_json_dict, called on one record
    lpc,                  \* position of the caller
    gisaid_json_dict,     \* the record passed in
    admin_result,         \* the record returned, or Raised
    \* ---- anonymize_microreact.py
    apc,                  \* position in anonymize_microreact
    header,               \* the column names of metadata_in
    metadata_list,        \* the rows read from metadata_in
    admn2_counts,         \* adm2 value -> number of rows
    anonymous_locations,  \* adm2 values seen on fewer than 5 rows
    random_names,         \* the pseudonyms handed out so far
    entry_i,              \* index of the row the pseudonym loop is at
    anonymous_name,       \* the pseudonym just drawn, or NoName
    metadata_out,         \* the lines written to metadata_out
    label_mappings,       \* original name -> pseudonym, insertion ordered
    tree_in,              \* the tree document read
    tree                  \* the tree document written

curVars == <<cpc, taxon_list, acc_to_tax, acc_name_counts, lin_acc_counts,
             acc_final_name_dict, new_names, acc_final, test_counter, outfile>>

samVars == <<spc, read_pool, block_size, rlen, sam_line, operations, op_i, new_seq,
             qstart, rstart, block_lines_sites_list, seq_flat, seq_out>>

gisVars == <<gpc, gerror, fields, args_csv, csv_file, json_file, omitted_IDs,
             args_lineages, lineages, csv_keys,
             old_records_list, old_records_dict, all_records_list, all_records_dict,
             new_records_list, output>>

procVars == <<invocation, rerun, given_csv, given_json>>

admVars == <<lpc, gisaid_json_dict, admin_result>>

anonVars == <<apc, header, metadata_list, admn2_counts, anonymous_locations, random_names,
              entry_i, anonymous_name, metadata_out, label_mappings, tree_in, tree>>

\* What each tool leaves alone; a step of an invocation of the converter
\* leaves alone which invocation it is and what it was given.
notCurVars == <<samVars, gisVars, procVars, admVars, anonVars>>

notSamVars == <<curVars, gisVars, procVars, admVars, anonVars>>

notGisVars == <<curVars, samVars, procVars, admVars, anonVars>>

notAdmVars == <<curVars, samVars, gisVars, procVars, anonVars>>

notAnonVars == <<curVars, samVars, gisVars, procVars, admVars>>

vars == <<curVars, samVars, gisVars, procVars, admVars, anonVars>>

----------------------------------------------------------------------------
(* Generic helpers for text and ordered containers.                        *)

\* The decimal digits, in order: Digits[d + 1] is the character of digit d.
Digits == <<"0", "1", "2", "3", "4", "5", "6", "7", "8", "9">>

DigitSet == {Digits[i] : i \in 1..10}

DigitVal(c) == (CHOOSE i \in 1..10 : Digits[i] = c) - 1

\* Python str(n) for n >= 0.
RECURSIVE Str(_)
Str(n) == IF n < 10 THEN <<Digits[n + 1]>>
          ELSE Str(n \div 10) \o <<Digits[(n % 10) + 1]>>

\* Python int(s) for a non-empty string of decimal digits.
RECURSIVE ParseInt(_)
ParseInt(s) == IF Len(s) = 1 THEN DigitVal(s[1])
               ELSE 10 * ParseInt(SubSeq(s, 1, Len(s) - 1)) + DigitVal(s[Len(s)])

\* Python s.lstrip(chars): drop leading characters that are in chars.
RECURSIVE Lstrip(_, _)
Lstrip(s, chars) == IF s # <<>> /\ Head(s) \in chars THEN Lstrip(Tail(s), chars)
                    ELSE s

\* x in list
In(x, list) == \E i \in 1..Len(list) : list[i] = x

\* list.count(x)
CountOf(x, list) == Cardinality({i \in 1..Len(list) : list[i] = x})

\* The distinct elements of list in order of first appearance (dict key order).
RECURSIVE FirstSeen(_)
FirstSeen(list) ==
    IF list = <<>> THEN <<>>
    ELSE LET front == FirstSeen(SubSeq(list, 1, Len(list) - 1))
             last  == list[Len(list)]
         IN  IF In(last, front) THEN front ELSE Append(front, last)

\* The elements list[i] with i in idx, in order.
RECURSIVE Pick(_, _, _)
Pick(list, idx, i) ==
    IF i > Len(list) THEN <<>>
    ELSE (IF i \in idx THEN <<list[i]>> ELSE <<>>) \o Pick(list, idx, i + 1)

\* collections.Counter(list): <<key, count>> pairs in order of first appearance.
CounterOf(list) ==
    LET keys == FirstSeen(list)
    IN  [i \in 1..Len(keys) |-> <<keys[i], CountOf(keys[i], list)>>]

\* Counter.most_common(): by count, descending; equal counts keep insertion order.
MostCommon(counter) ==
    LET rank(i) == Cardinality({j \in 1..Len(counter) :
                       \/ counter[j][2] > counter[i][2]
                       \/ counter[j][2] = counter[i][2] /\ j < i}) + 1
    IN  [p \in 1..Len(counter) |-> counter[CHOOSE i \in 1..Len(counter) : rank(i) = p]]

\* counter[key] of a Counter: 0 for a missing key.
CounterGet(counter, key) ==
    IF \E i \in 1..Len(counter) : counter[i][1] = key
    THEN counter[CHOOSE i \in 1..Len(counter) : counter[i][1] = key][2]
    ELSE 0

\* d[key] of a dict, default when the key is missing (defaultdict, dict.get).
DictGet(d, key, default) ==
    IF \E i \in 1..Len(d) : d[i][1] = key
    THEN d[CHOOSE i \in 1..Len(d) : d[i][1] = key][2]
    ELSE default

\* The concatenation of a sequence of sequences.
RECURSIVE Flatten(_)
Flatten(ss) == IF ss = <<>> THEN <<>> ELSE Head(ss) \o Flatten(Tail(ss))

\* sorted(list) of integers, ascending.
Sorted(list) ==
    LET rank(i) == Cardinality({j \in 1..Len(list) :
                       \/ list[j] < list[i]
                       \/ list[j] = list[i] /\ j < i}) + 1
    IN  [p \in 1..Len(list) |-> list[CHOOSE i \in 1..Len(list) : rank(i) = p]]

----------------------------------------------------------------------------
(* A tool that is not running.                                             *)

CurIdle ==
    /\ cpc = "idle"
    /\ taxon_list = <<>>
    /\ acc_to_tax = <<>>
    /\ acc_name_counts = <<>>
    /\ lin_acc_counts = <<>>
    /\ acc_final_name_dict = <<>>
    /\ new_names = <<>>
    /\ acc_final = <<>>
    /\ test_counter = <<>>
    /\ outfile = <<>>

SamIdle ==
    /\ spc = "idle"
    /\ read_pool = "none"
    /\ block_size = 0
    /\ rlen = 0
    /\ sam_line = <<>>
    /\ operations = <<>>
    /\ op_i = 0
    /\ new_seq = <<>>
    /\ qstart = 0
    /\ rstart = 0
    /\ block_lines_sites_list = <<>>
    /\ seq_flat = <<>>
    /\ seq_out = <<>>

GisIdle ==
    /\ gpc = "idle"
    /\ gerror = "none"
    /\ fields = <<"edin_epi_week", "edin_annotation">>
    /\ args_csv = "False"
    /\ csv_file = <<>>
    /\ json_file = <<>>
    /\ omitted_IDs = {}
    /\ args_lineages = FALSE
    /\ lineages = <<>>
    /\ csv_keys = <<>>
    /\ old_records_list = <<>>
    /\ old_records_dict = <<>>
    /\ all_records_list = <<>>
    /\ all_records_dict = <<>>
    /\ new_records_list = <<>>
    /\ output = <<>>
    /\ invocation = 1
    /\ rerun = FALSE
    /\ given_csv = <<>>
    /\ given_json = <<>>

AdmIdle ==
    /\ lpc = "idle"
    /\ gisaid_json_dict = <<>>
    /\ admin_result = <<>>

AnonIdle ==
    /\ apc = "idle"
    /\ header = <<>>
    /\ metadata_list = <<>>
    /\ admn2_counts = <<>>
    /\ anonymous_locations = {}
    /\ random_names = <<>>
    /\ entry_i = 0
    /\ anonymous_name = <<>>
    /\ metadata_out = <<>>
    /\ label_mappings = <<>>
    /\ tree_in = <<>>
    /\ tree = <<>>

----------------------------------------------------------------------------
(* curate_lineages.py                                                      *)

\* Bounds of the curator's inputs.
MaxTaxa == 5
MaxAcc == 3
MaxLin == 2

\* The empty string.
EmptyStr == <<>>

\* The label "UK<n>".
UKName(n) == <<"U", "K">> \o Str(n)

\* The old lineage labels a traits row may carry: none, or UK<integer>.
Lineages == {EmptyStr} \cup {UKName(n) : n \in 1..MaxLin}

\* acc_to_tax: the taxa of each cluster, clusters in order of first appearance.
AccToTax(tl) ==
    LET keys == FirstSeen([i \in 1..Len(tl) |-> tl[i].acctrans])
    IN  [k \in 1..Len(keys) |->
            <<keys[k], Pick(tl, {i \in 1..Len(tl) : tl[i].acctrans = keys[k]}, 1)>>]

\* acc_to_poss_lins: the old lineages proposed by each cluster's taxa.
AccToPossLins(att) ==
    [k \in 1..Len(att) |->
        <<att[k][1], [j \in 1..Len(att[k][2]) |-> att[k][2][j].old_lineage]>>]

\* lins_to_acc: for each old lineage, the clusters proposing it (one per taxon).
LinsToAcc(atpl) ==
    LET pairs == Flatten([k \in 1..Len(atpl) |->
                     [j \in 1..Len(atpl[k][2]) |-> <<atpl[k][2][j], atpl[k][1]>>]])
        keys  == FirstSeen([i \in 1..Len(pairs) |-> pairs[i][1]])
    IN  [n \in 1..Len(keys) |->
            <<keys[n],
              LET sel == Pick(pairs, {i \in 1..Len(pairs) : pairs[i][1] = keys[n]}, 1)
              IN  [i \in 1..Len(sel) |-> sel[i][2]]>>]

\* The Counter of every value of a dict of lists.
CountValues(d) == [k \in 1..Len(d) |-> <<d[k][1], CounterOf(d[k][2])>>]

\* rename_lineages, third branch: the first non-empty proposal of cluster k, in
\* descending frequency, for which no other cluster whose top proposal it is
\* has a strictly higher count; "" when every proposal is skipped.
RECURSIVE TryProposals(_, _, _)
TryProposals(anc, k, i) ==
    LET poss_lins == anc[k][2]
    IN  IF i > Len(poss_lins) THEN EmptyStr
        ELSE LET query_lin == MostCommon(poss_lins)[i][1]
                 count     == MostCommon(poss_lins)[i][2]
                 more_deserving ==
                     \E o \in 1..Len(anc) :
                         /\ o # k
                         /\ MostCommon(anc[o][2])[1][1] = query_lin
                         /\ MostCommon(anc[o][2])[1][2] > count
             IN  IF query_lin = EmptyStr \/ more_deserving
                 THEN TryProposals(anc, k, i + 1)
                 ELSE query_lin

\* rename_lineages: which of the three branches cluster k takes.
RenameBranch(anc, lac, k) ==
    LET poss_lins    == anc[k][2]
        relevant_lin == poss_lins[1][1]
    IN  IF /\ Len(poss_lins) = 1
           /\ relevant_lin # EmptyStr
           /\ Len(DictGet(lac, relevant_lin, <<>>)) = 1
        THEN 1
        ELSE IF Len(poss_lins) = 1 /\ relevant_lin = EmptyStr THEN 2 ELSE 3

\* rename_lineages: the label cluster k is given.
RenameOne(anc, lac, k) ==
    IF RenameBranch(anc, lac, k) = 3 THEN TryProposals(anc, k, 1)
    ELSE anc[k][2][1][1]

\* rename_lineages: (acc_final_name_dict, new_names).
rename_lineages(anc, lac) ==
    LET names == [k \in 1..Len(anc) |-> RenameOne(anc, lac, k)]
    IN  [acc_final_name_dict |-> [k \in 1..Len(anc) |-> <<anc[k][1], <<names[k]>>>>],
         new_names |-> Pick(names,
                            {k \in 1..Len(anc) : RenameBranch(anc, lac, k) = 3}, 1)]

\* deal_with_issues: the labels won by more than one third-branch cluster.
ProblemLins(nn) ==
    LET keys == FirstSeen(nn)
    IN  Pick(keys, {i \in 1..Len(keys) :
                        CountOf(keys[i], nn) > 1 /\ keys[i] # EmptyStr}, 1)

\* deal_with_issues: the clusters holding lin, each with its count for lin.
ListOfTuples(afnd, lac, lin) ==
    LET held == Pick(afnd, {k \in 1..Len(afnd) : afnd[k][2][1] = lin}, 1)
    IN  [i \in 1..Len(held) |->
            <<held[i][1], CounterGet(DictGet(lac, lin, <<>>), held[i][1])>>]

\* max(list_of_tuples, key=itemgetter(1))[0]: the first cluster of highest count.
Winner(tuples) ==
    tuples[CHOOSE i \in 1..Len(tuples) :
              /\ \A j \in 1..Len(tuples) : tuples[j][2] <= tuples[i][2]
              /\ \A j \in 1..(i - 1) : tuples[j][2] < tuples[i][2]][1]

\* deal_with_issues: the label a losing contender is given: the first of its own
\* proposals, in the Counter's own order, that is non-empty and not in new_names.
RECURSIVE OtherOption(_, _, _)
OtherOption(options, nn, i) ==
    IF i > Len(options) THEN EmptyStr
    ELSE IF options[i][1] # EmptyStr /\ ~In(options[i][1], nn) THEN options[i][1]
    ELSE OtherOption(options, nn, i + 1)

\* deal_with_issues: acc_final_name_dict after the sweep.
deal_with_issues(afnd, nn, lac, anc) ==
    LET problem_lins == ProblemLins(nn)
        loses(k) == \E p \in 1..Len(problem_lins) :
                        /\ afnd[k][2][1] = problem_lins[p]
                        /\ Winner(ListOfTuples(afnd, lac, problem_lins[p])) # afnd[k][1]
    IN  [k \in 1..Len(afnd) |->
            IF loses(k)
            THEN <<afnd[k][1], <<OtherOption(DictGet(anc, afnd[k][1], <<>>), nn, 1)>>>>
            ELSE afnd[k]]

\* name_new_lineages: the integers of the labels still held after the sweep.
UsedNames(afnd) ==
    LET held == Pick(afnd, {k \in 1..Len(afnd) : afnd[k][2][1] # EmptyStr}, 1)
    IN  [i \in 1..Len(held) |-> ParseInt(Lstrip(held[i][2][1], {"U", "K"}))]

\* name_new_lineages: the loop that names the clusters; usable_names and
\* full_list (of which only the length is read) are threaded through.
RECURSIVE NameLoop(_, _, _, _)
NameLoop(afnd, k, usable_names, full_len) ==
    IF k > Len(afnd) THEN <<>>
    ELSE IF afnd[k][2][1] = EmptyStr
         THEN IF Len(usable_names) > 0
              THEN <<<<afnd[k][1], UKName(Head(usable_names))>>>>
                   \o NameLoop(afnd, k + 1, Tail(usable_names), full_len)
              ELSE <<<<afnd[k][1], UKName(full_len + 1)>>>>
                   \o NameLoop(afnd, k + 1, usable_names, full_len + 1)
         ELSE <<<<afnd[k][1], afnd[k][2][1]>>>>
              \o NameLoop(afnd, k + 1, usable_names, full_len)

\* name_new_lineages: (acc_final, test_counter).
name_new_lineages(afnd) ==
    LET used_names == UsedNames(afnd)
        full_list  == [i \in 1..Len(used_names) |-> i]
        usable     == Pick(full_list,
                           {i \in 1..Len(full_list) : ~In(full_list[i], used_names)}, 1)
    IN  [acc_final |-> NameLoop(afnd, 1, usable, Len(full_list)),
         test_counter |-> CounterOf(Sorted(used_names))]

\* most_common(20) at curate_lineages.py line 249.
TopN == 20

\* A variant of write_to_file that keeps every lineage's label.
write_every_lineage(att, af) ==
    LET new_tax_list == Flatten([k \in 1..Len(att) |->
                            [j \in 1..Len(att[k][2]) |->
                                <<att[k][2][j].id, DictGet(af, att[k][1], EmptyStr),
                                  att[k][2][j].acctrans>>]])
    IN  [i \in 1..Len(new_tax_list) |->
            <<new_tax_list[i][1], new_tax_list[i][2], new_tax_list[i][3],
              new_tax_list[i][2]>>]

\* write_to_file: the rows <<taxon, uk_lineage, acctrans, microreact_lineage>>.
write_to_file(att, af) ==
    LET new_tax_list == Flatten([k \in 1..Len(att) |->
                            [j \in 1..Len(att[k][2]) |->
                                <<att[k][2][j].id, DictGet(af, att[k][1], EmptyStr),
                                  att[k][2][j].acctrans>>]])
        lin_counts == CounterOf([i \in 1..Len(new_tax_list) |-> new_tax_list[i][2]])
        top_prep   == MostCommon(lin_counts)
        top_20     == [i \in 1..(IF Len(top_prep) < TopN THEN Len(top_prep) ELSE TopN)
                          |-> top_prep[i][1]]
    IN  [i \in 1..Len(new_tax_list) |->
            <<new_tax_list[i][1], new_tax_list[i][2], new_tax_list[i][3],
              IF In(new_tax_list[i][2], top_20) THEN new_tax_list[i][2]
              ELSE <<"o", "t", "h", "e", "r">>>>]

\* The curator before it has read anything.
CurInit ==
    /\ cpc = "read"
    /\ taxon_list = <<>>
    /\ acc_to_tax = <<>>
    /\ acc_name_counts = <<>>
    /\ lin_acc_counts = <<>>
    /\ acc_final_name_dict = <<>>
    /\ new_names = <<>>
    /\ acc_final = <<>>
    /\ test_counter = <<>>
    /\ outfile = <<>>

\* make_taxon_objects reads one more traits row: a row whose second column is
\* not "UK" is skipped.  Cluster identifiers are opaque keys, so a new cluster
\* is given the next unused number.
ReadTaxon ==
    /\ cpc = "read"
    /\ Len(taxon_list) < MaxTaxa
    /\ \E country \in {"UK", "FR"}, lin \in Lineages, acc \in 1..MaxAcc :
          /\ acc <= Cardinality({taxon_list[i].acctrans : i \in 1..Len(taxon_list)}) + 1
          /\ taxon_list' =
                IF country = "UK"
                THEN Append(taxon_list, [id |-> Len(taxon_list) + 1,
                                         old_lineage |-> lin, acctrans |-> acc])
                ELSE taxon_list
    /\ UNCHANGED <<cpc, acc_to_tax, acc_name_counts, lin_acc_counts,
                   acc_final_name_dict, new_names, acc_final, test_counter, outfile>>
    /\ UNCHANGED notCurVars

\* make_taxon_objects at the end of the file: the tallies.
MakeTaxonObjects ==
    /\ cpc = "read"
    /\ acc_to_tax' = AccToTax(taxon_list)
    /\ acc_name_counts' = CountValues(AccToPossLins(AccToTax(taxon_list)))
    /\ lin_acc_counts' = CountValues(LinsToAcc(AccToPossLins(AccToTax(taxon_list))))
    /\ cpc' = "rename"
    /\ UNCHANGED <<taxon_list, acc_final_name_dict, new_names, acc_final,
                   test_counter, outfile>>
    /\ UNCHANGED notCurVars

RenameLineages ==
    /\ cpc = "rename"
    /\ acc_final_name_dict' =
          rename_lineages(acc_name_counts, lin_acc_counts).acc_final_name_dict
    /\ new_names' = rename_lineages(acc_name_counts, lin_acc_counts).new_names
    /\ cpc' = "issues"
    /\ UNCHANGED <<taxon_list, acc_to_tax, acc_name_counts, lin_acc_counts,
                   acc_final, test_counter, outfile>>
    /\ UNCHANGED notCurVars

DealWithIssues ==
    /\ cpc = "issues"
    /\ acc_final_name_dict' =
          deal_with_issues(acc_final_name_dict, new_names, lin_acc_counts,
                           acc_name_counts)
    /\ cpc' = "name"
    /\ UNCHANGED <<taxon_list, acc_to_tax, acc_name_counts, lin_acc_counts,
                   new_names, acc_final, test_counter, outfile>>
    /\ UNCHANGED notCurVars

NameNewLineages ==
    /\ cpc = "name"
    /\ acc_final' = name_new_lineages(acc_final_name_dict).acc_final
    /\ test_counter' = name_new_lineages(acc_final_name_dict).test_counter
    /\ cpc' = "assert"
    /\ UNCHANGED <<taxon_list, acc_to_tax, acc_name_counts, lin_acc_counts,
                   acc_final_name_dict, new_names, outfile>>
    /\ UNCHANGED notCurVars

\* The two assertions of curate_lineages: a failed one aborts the run.
IntegrityChecks ==
    /\ cpc = "assert"
    /\ cpc' = IF /\ \A i \in 1..Len(test_counter) : test_counter[i][2] = 1
                 /\ \A k \in 1..Len(acc_final_name_dict) :
                        Len(acc_final_name_dict[k][2]) = 1
              THEN "write"
              ELSE "aborted"
    /\ UNCHANGED <<taxon_list, acc_to_tax, acc_name_counts, lin_acc_counts,
                   acc_final_name_dict, new_names, acc_final, test_counter, outfile>>
    /\ UNCHANGED notCurVars

WriteToFile ==
    /\ cpc = "write"
    /\ outfile' = write_to_file(acc_to_tax, acc_final)
    /\ cpc' = "done"
    /\ UNCHANGED <<taxon_list, acc_to_tax, acc_name_counts, lin_acc_counts,
                   acc_final_name_dict, new_names, acc_final, test_counter>>
    /\ UNCHANGED notCurVars

CurNext ==
    \/ ReadTaxon
    \/ MakeTaxonObjects
    \/ RenameLineages
    \/ DealWithIssues
    \/ NameNewLineages
    \/ IntegrityChecks
    \/ WriteToFile

InitCurate == CurInit /\ SamIdle /\ GisIdle /\ AdmIdle /\ AnonIdle

SpecCurate == InitCurate /\ [][CurNext]_vars

\* ---- the curator on tables with more clusters than write_to_file keeps

\* The most clusters of such a table.
MaxClusters == 22

\* A traits table of n clusters of one taxon each, with one more taxon in
\* cluster p and one more in cluster q (0: none); no taxon has an old lineage.
LongTable(n, p, q) ==
    LET extra == (IF p > 0 THEN <<p>> ELSE <<>>) \o (IF q > 0 THEN <<q>> ELSE <<>>)
        accs  == [i \in 1..n |-> i] \o extra
    IN  [i \in 1..Len(accs) |->
            [id |-> i, old_lineage |-> EmptyStr, acctrans |-> accs[i]]]

\* make_taxon_objects has read such a table.
TopInit ==
    /\ cpc = "read"
    /\ \E n \in 0..MaxClusters : \E p, q \in 0..n : taxon_list = LongTable(n, p, q)
    /\ acc_to_tax = <<>>
    /\ acc_name_counts = <<>>
    /\ lin_acc_counts = <<>>
    /\ acc_final_name_dict = <<>>
    /\ new_names = <<>>
    /\ acc_final = <<>>
    /\ test_counter = <<>>
    /\ outfile = <<>>

TopNext ==
    \/ MakeTaxonObjects
    \/ RenameLineages
    \/ DealWithIssues
    \/ NameNewLineages
    \/ IntegrityChecks
    \/ WriteToFile

InitTop == TopInit /\ SamIdle /\ GisIdle /\ AdmIdle /\ AnonIdle

SpecTop == InitTop /\ [][TopNext]_vars

----------------------------------------------------------------------------
(* Claims about curate_lineages.py                                         *)

\* The final label of cluster acc ("" when acc_final has no entry for it).
FinalLabel(acc) == DictGet(acc_final, acc, EmptyStr)

\* The clusters of the input, in acc_name_counts order.
Clusters == {acc_name_counts[k][1] : k \in 1..Len(acc_name_counts)}

\* C1: on every run of curate_lineages that completes, every cluster has
\* exactly one final label in acc_final, and no two distinct clusters have the
\* same final label, reused and freshly minted labels alike.
C1_FinalLabelsUnique ==
    cpc = "done" =>
        /\ \A a \in Clusters :
              /\ Cardinality({k \in 1..Len(acc_final) : acc_final[k][1] = a}) = 1
              /\ FinalLabel(a) # EmptyStr
        /\ \A a, b \in Clusters : a # b => FinalLabel(a) # FinalLabel(b)

\* C9: when two clusters both have the same non-empty label L as their most
\* frequent proposal and one has a strictly higher count for L, the integrity
\* checks pass, the higher-count cluster's final label is L and the other
\* cluster's final label is not L.
C9_HigherCountKeepsLabel ==
    cpc \in {"write", "done", "aborted"} =>
        \A a, b \in Clusters :
            LET topA == MostCommon(DictGet(acc_name_counts, a, <<>>))[1]
                topB == MostCommon(DictGet(acc_name_counts, b, <<>>))[1]
            IN  (a # b /\ topA[1] = topB[1] /\ topA[1] # EmptyStr /\ topA[2] > topB[2])
                => /\ cpc # "aborted"
                   /\ FinalLabel(a) = topA[1]
                   /\ FinalLabel(b) # topA[1]

\* The uk_lineage labels of the written rows, and the taxa written under one.
WrittenLineages == {outfile[i][2] : i \in 1..Len(outfile)}

TaxaOf(lineage) == Cardinality({i \in 1..Len(outfile) : outfile[i][2] = lineage})

\* The lineages whose rows carry their label as microreact_lineage.
KeptLineages == {outfile[i][2] : i \in {j \in 1..Len(outfile) : outfile[j][4] = outfile[j][2]}}

\* C12: in the written file a taxon's microreact_lineage is its uk_lineage
\* exactly when that lineage is among the 20 lineages with the most taxa (all
\* lineages when there are 20 or fewer), and the literal 'other' for every
\* other taxon: the lineages kept are 20 (or all), none of them has fewer
\* taxa than a lineage not kept, and every row of a lineage fares alike.
C12_TopTwentyKeepLabel ==
    cpc = "done" =>
        /\ \A i \in 1..Len(outfile) :
               IF outfile[i][2] \in KeptLineages
               THEN outfile[i][4] = outfile[i][2]
               ELSE outfile[i][4] = <<"o", "t", "h", "e", "r">>
        /\ Cardinality(KeptLineages) =
               IF Cardinality(WrittenLineages) <= 20
               THEN Cardinality(WrittenLineages) ELSE 20
        /\ \A k \in KeptLineages : \A o \in WrittenLineages \ KeptLineages :
               TaxaOf(k) >= TaxaOf(o)

\* 22 lineages are written; the last has two taxa and keeps its label, while
\* the one-taxon lineages UK20 and UK21 are written as 'other'.
C12_Witness ==
    /\ cpc = "done"
    /\ Cardinality(WrittenLineages) = 22
    /\ TaxaOf(UKName(22)) = 2
    /\ UKName(22) \in KeptLineages
    /\ UKName(19) \in KeptLineages
    /\ UKName(20) \notin KeptLineages
    /\ UKName(21) \notin KeptLineages

\* The integer of a label 'UK<n>'.
LabelNumber(label) == ParseInt(Lstrip(label, {"U", "K"}))

\* The clusters left without a label by the sweep, as places of
\* acc_final_name_dict, and the integers of the labels the others retain.
EmptyPlaces == {k \in 1..Len(acc_final_name_dict) : acc_final_name_dict[k][2][1] = EmptyStr}

RetainedNumbers ==
    {LabelNumber(acc_final_name_dict[k][2][1]) :
         k \in (1..Len(acc_final_name_dict)) \ EmptyPlaces}

\* The integers minted for the empty clusters that come before place k.
MintedBefore(k) == {LabelNumber(acc_final[j][2]) : j \in {i \in EmptyPlaces : i < k}}

\* C13: name_new_lineages gives the clusters whose assignment is empty fresh
\* labels in cluster iteration order, each 'UK<n>' with n the smallest positive
\* integer that no retained label uses and that was not minted earlier in the
\* run (so that, the unused integers below the retained ones exhausted, n is
\* larger than every integer in use); the other clusters keep their label.
C13_FreshLabelsSmallestUnused ==
    cpc \in {"assert", "write", "done", "aborted"} =>
        /\ Len(acc_final) = Len(acc_final_name_dict)
        /\ \A k \in 1..Len(acc_final_name_dict) :
               /\ acc_final[k][1] = acc_final_name_dict[k][1]
               /\ IF k \in EmptyPlaces
                  THEN LET taken == RetainedNumbers \cup MintedBefore(k)
                           n     == CHOOSE m \in 1..(Cardinality(taken) + 1) :
                                        /\ m \notin taken
                                        /\ \A l \in 1..(m - 1) : l \in taken
                       IN  acc_final[k][2] = UKName(n)
                  ELSE acc_final[k][2] = acc_final_name_dict[k][2][1]

\* The label cluster place k won in rename_lineages, and the one it holds now.
WonLabel(k) == rename_lineages(acc_name_counts, lin_acc_counts).acc_final_name_dict[k][2][1]

HeldLabel(k) == acc_final_name_dict[k][2][1]

\* The count cluster place k has for label lin.
CountFor(k, lin) == CounterGet(DictGet(lin_acc_counts, lin, <<>>), acc_final_name_dict[k][1])

\* C14: after deal_with_issues no non-empty label is held by more than one
\* cluster; of the clusters that won one label in rename_lineages the one
\* with the highest count for it keeps it; and the integrity assertions of
\* curate_lineages do not fail.
C14_SweepLeavesLabelsUnique ==
    cpc \in {"name", "assert", "write", "done", "aborted"} =>
        /\ \A j, k \in 1..Len(acc_final_name_dict) :
               (j # k /\ HeldLabel(j) # EmptyStr) => HeldLabel(j) # HeldLabel(k)
        /\ \A k \in 1..Len(acc_final_name_dict) :
               (/\ WonLabel(k) # EmptyStr
                /\ \A j \in 1..Len(acc_final_name_dict) :
                       (j # k /\ WonLabel(j) = WonLabel(k))
                           => CountFor(j, WonLabel(k)) < CountFor(k, WonLabel(k)))
               => HeldLabel(k) = WonLabel(k)
        /\ cpc # "aborted"

----------------------------------------------------------------------------
(* sam_2_fasta.py                                                          *)

\* Bounds of the builder's inputs.
MaxReads == 2
MaxOps == 2
MaxOpLen == 2
MaxPos == 2
MaxSeqLen == 3
RefLen == 4
MaxSwapLen == 5

\* The characters [A-Z] of the regular expressions, which are also the
\* characters of the model for which str.isalpha() holds.
Alphabet == <<"A", "B", "C", "D", "E", "F", "G", "H", "I", "J", "K", "L", "M",
              "N", "O", "P", "Q", "R", "S", "T", "U", "V", "W", "X", "Y", "Z">>

UpperCase == {Alphabet[i] : i \in 1..Len(Alphabet)}

IsAlpha(c) == c \in UpperCase

\* ord(c) for the characters a site can hold.
Ord(c) == IF c = "*" THEN 42
          ELSE IF c = "-" THEN 45
          ELSE 64 + (CHOOSE i \in 1..Len(Alphabet) : Alphabet[i] = c)

\* Python c * n: n copies of the character c (none when n <= 0).
Repeat(c, n) == [i \in 1..n |-> c]

\* Python seq[a:b] for 0 <= a <= b.
Slice(seq, a, b) == SubSeq(seq, a + 1, IF b < Len(seq) THEN b ELSE Len(seq))

\* The number of leading characters of s, from index i on, that are in chars.
RECURSIVE RunLen(_, _, _)
RunLen(s, i, chars) ==
    IF i > Len(s) \/ s[i] \notin chars THEN 0 ELSE 1 + RunLen(s, i + 1, chars)

\* split_sam_cigar: re.findall('\d{1,}[A-Z]{1}', cigar), scanning from index i.
RECURSIVE split_sam_cigar(_, _)
split_sam_cigar(cigar, i) ==
    IF i > Len(cigar) THEN <<>>
    ELSE LET d == RunLen(cigar, i, DigitSet)
         IN  IF d >= 1 /\ i + d <= Len(cigar) /\ cigar[i + d] \in UpperCase
             THEN <<SubSeq(cigar, i, i + d)>> \o split_sam_cigar(cigar, i + d + 1)
             ELSE split_sam_cigar(cigar, i + 1)

\* split_sam_cigar_operation: (type, size) of one token.
split_sam_cigar_operation(one_operation) ==
    <<one_operation[Len(one_operation)],
      ParseInt(SubSeq(one_operation, 1, Len(one_operation) - 1))>>

get_sam_cigar_operations(cigar) ==
    LET operations_raw == split_sam_cigar(cigar, 1)
    IN  [i \in 1..Len(operations_raw) |-> split_sam_cigar_operation(operations_raw[i])]

\* lambda_dict[operation](query_start, ref_start, length, seq)
lambda_dict(operation, query_start, ref_start, length, seq) ==
    IF operation \in {"M", "=", "X"}
    THEN <<query_start + length, ref_start + length,
           Slice(seq, query_start, query_start + length)>>
    ELSE IF operation \in {"I", "S"}
    THEN <<query_start + length, ref_start, <<>>>>
    ELSE IF operation \in {"D", "N"}
    THEN <<query_start, ref_start + length, Repeat("-", length)>>
    ELSE <<query_start, ref_start, <<>>>>

\* The operation codes lambda_dict has an entry for.
LambdaKeys == {"M", "I", "D", "N", "S", "H", "P", "=", "X"}

\* What get_one_string returns for an unmapped read.
None == <<"None">>

\* check_and_get_flattened_site as it would be if only disagreeing bases were
\* marked: a site whose bases all agree is given that base.
SiteMarkedOnDisagreement(site) ==
    LET bases == {site[i] : i \in {j \in 1..Len(site) : IsAlpha(site[j])}}
    IN  IF Cardinality(bases) > 1 THEN "&"
        ELSE site[CHOOSE i \in 1..Len(site) :
                     /\ \A j \in 1..Len(site) : Ord(site[j]) <= Ord(site[i])
                     /\ \A j \in 1..(i - 1) : Ord(site[j]) < Ord(site[i])]

\* check_and_get_flattened_site
check_and_get_flattened_site(site) ==
    LET check == Cardinality({i \in 1..Len(site) : IsAlpha(site[i])})
    IN  IF check > 1 THEN "&"
        ELSE site[CHOOSE i \in 1..Len(site) :
                     /\ \A j \in 1..Len(site) : Ord(site[j]) <= Ord(site[i])
                     /\ \A j \in 1..(i - 1) : Ord(site[j]) < Ord(site[i])]

\* Python s.replace(old, new) for a non-empty old: every occurrence, left to
\* right, without overlap.
RECURSIVE Replace(_, _, _)
Replace(s, old, new) ==
    IF Len(s) < Len(old) THEN s
    ELSE IF SubSeq(s, 1, Len(old)) = old
         THEN new \o Replace(SubSeq(s, Len(old) + 1, Len(s)), old, new)
         ELSE <<Head(s)>> \o Replace(Tail(s), old, new)

\* x.replace('*', c) for a string x
SwapStars(x, c) == [i \in 1..Len(x) |-> IF x[i] = "*" THEN c ELSE x[i]]

\* re.findall('[A-Z]\*+[A-Z]', seq), scanning from index i.
RECURSIVE FindInternal(_, _)
FindInternal(seq, i) ==
    IF i > Len(seq) THEN <<>>
    ELSE LET n == RunLen(seq, i + 1, {"*"})
         IN  IF /\ seq[i] \in UpperCase
                /\ n >= 1
                /\ i + n + 1 <= Len(seq)
                /\ seq[i + n + 1] \in UpperCase
             THEN <<SubSeq(seq, i, i + n + 1)>> \o FindInternal(seq, i + n + 2)
             ELSE FindInternal(seq, i + 1)

\* swap_in_gaps_Ns, first loop: one replace per match found in the original.
RECURSIVE SwapInternal(_, _, _)
SwapInternal(seq, found, k) ==
    IF k > Len(found) THEN seq
    ELSE LET x == found[k]
         IN  SwapInternal(
                 Replace(seq, x,
                         <<x[1]>> \o SwapStars(SubSeq(x, 2, Len(x) - 1), "N")
                                  \o <<x[Len(x)]>>),
                 found, k + 1)

\* swap_in_gaps_Ns, re.search('^\*+[A-Z]', seq) and its replace.
SwapLeft(seq) ==
    LET n == RunLen(seq, 1, {"*"})
    IN  IF n >= 1 /\ n + 1 <= Len(seq) /\ seq[n + 1] \in UpperCase
        THEN LET g_left == SubSeq(seq, 1, n + 1)
             IN  Replace(seq, g_left,
                         SwapStars(SubSeq(g_left, 1, n), "-") \o <<g_left[n + 1]>>)
        ELSE seq

\* The length of the run of '*' that ends the string.
RECURSIVE TailRun(_)
TailRun(seq) ==
    IF seq = <<>> \/ seq[Len(seq)] # "*" THEN 0
    ELSE 1 + TailRun(SubSeq(seq, 1, Len(seq) - 1))

\* swap_in_gaps_Ns, re.search('[A-Z]\*+$', seq) and its replace.
SwapRight(seq) ==
    LET n == TailRun(seq)
    IN  IF n >= 1 /\ n < Len(seq) /\ seq[Len(seq) - n] \in UpperCase
        THEN LET g_right == SubSeq(seq, Len(seq) - n, Len(seq))
             IN  Replace(seq, g_right,
                         <<g_right[1]>> \o SwapStars(SubSeq(g_right, 2, n + 1), "-"))
        ELSE seq

swap_in_gaps_Ns(seq) == SwapRight(SwapLeft(SwapInternal(seq, FindInternal(seq, 1), 1)))

\* zip(*[list(x) for x in lines]): the sites, as many as the shortest line has.
Sites(lines) ==
    LET n == CHOOSE m \in {Len(lines[i]) : i \in 1..Len(lines)} :
                 \A i \in 1..Len(lines) : m <= Len(lines[i])
    IN  [c \in 1..n |-> [i \in 1..Len(lines) |-> lines[i][c]]]

\* get_seq_from_block, the block of two or more lines: the flattened sequence.
Flattened(lines) ==
    IF lines = <<>> THEN <<>>
    ELSE [c \in 1..Len(Sites(lines)) |-> check_and_get_flattened_site(Sites(lines)[c])]

\* The CIGAR string written for a list of <<operation, length>> pairs.
CigarText(ops) == Flatten([i \in 1..Len(ops) |-> Str(ops[i][2]) \o <<ops[i][1]>>])

\* The sequences of at most n elements of S.
SeqsUpTo(S, n) == UNION {[1..k -> S] : k \in 0..n}

\* A parsed SAM line: the fields get_one_string reads, and cigar_ops, the
\* operations its CIGAR string was written from.
SamLine(pos, ops, seq) == [POS |-> pos, CIGAR |-> CigarText(ops), SEQ |-> seq,
                           cigar_ops |-> ops]

\* The lines of single-read runs: any operation code, any SEQ over two bases.
RichPool ==
    {SamLine(pos, ops, seq) :
        pos \in (-1)..MaxPos,
        ops \in SeqsUpTo(LambdaKeys \X (1..MaxOpLen), MaxOps),
        seq \in SeqsUpTo({"A", "C"}, MaxSeqLen)}

\* The lines of multi-read blocks: a few alignments of two-base reads.
BlockPool ==
    {SamLine(pos, ops, seq) :
        pos \in {-1, 0, 1},
        ops \in {<<<<"M", 1>>>>, <<<<"M", 2>>>>, <<<<"D", 1>>>>,
                 <<<<"M", 1>>, <<"D", 1>>>>},
        seq \in {<<"A", "C">>, <<"C", "A">>}}

ReadPool == IF read_pool = "rich" THEN RichPool ELSE BlockPool

\* One run on a single read, drawn from RichPool.
SamInitRead ==
    /\ spc = "block"
    /\ read_pool = "rich"
    /\ block_size = 1
    /\ rlen = RefLen
    /\ sam_line = <<>>
    /\ operations = <<>>
    /\ op_i = 0
    /\ new_seq = <<>>
    /\ qstart = 0
    /\ rstart = 0
    /\ block_lines_sites_list = <<>>
    /\ seq_flat = <<>>
    /\ seq_out = <<>>

\* One run on a block of up to MaxReads reads, drawn from BlockPool.
SamInitBlock ==
    /\ spc = "block"
    /\ read_pool = "block"
    /\ block_size \in 1..MaxReads
    /\ rlen = RefLen
    /\ sam_line = <<>>
    /\ operations = <<>>
    /\ op_i = 0
    /\ new_seq = <<>>
    /\ qstart = 0
    /\ rstart = 0
    /\ block_lines_sites_list = <<>>
    /\ seq_flat = <<>>
    /\ seq_out = <<>>

\* One call of swap_in_gaps_Ns on a sequence of bases, gaps and sentinels.
SamInitSwap ==
    /\ spc = "swap"
    /\ read_pool = "none"
    /\ block_size = 0
    /\ rlen = 0
    /\ sam_line = <<>>
    /\ operations = <<>>
    /\ op_i = 0
    /\ new_seq = <<>>
    /\ qstart = 0
    /\ rstart = 0
    /\ block_lines_sites_list = <<>>
    /\ seq_flat \in SeqsUpTo({"A", "*", "-"}, MaxSwapLen)
    /\ seq_out = <<>>

\* get_one_string up to its loop, for the next line of the block: None for a
\* negative POS, else the parsed operations and the left padding.
GetOneString ==
    /\ spc = "block"
    /\ Len(block_lines_sites_list) < block_size
    /\ \E line \in ReadPool :
          /\ sam_line' = line
          /\ IF line.POS < 0
             THEN /\ block_lines_sites_list' = Append(block_lines_sites_list, None)
                  /\ UNCHANGED <<spc, operations, op_i, new_seq, qstart, rstart>>
             ELSE /\ operations' = get_sam_cigar_operations(line.CIGAR)
                  /\ op_i' = 1
                  /\ new_seq' = Repeat("*", line.POS)
                  /\ qstart' = 0
                  /\ rstart' = line.POS
                  /\ spc' = "ops"
                  /\ UNCHANGED block_lines_sites_list
    /\ UNCHANGED <<read_pool, block_size, rlen, seq_flat, seq_out>>
    /\ UNCHANGED notSamVars

\* One turn of get_one_string's loop over the operations.
ApplyOperation ==
    /\ spc = "ops"
    /\ op_i <= Len(operations)
    /\ LET operation == operations[op_i][1]
           size      == operations[op_i][2]
           r         == lambda_dict(operation, qstart, rstart, size, sam_line.SEQ)
       IN  IF operation \in LambdaKeys
           THEN /\ new_seq' = new_seq \o r[3]
                /\ qstart' = r[1]
                /\ rstart' = r[2]
                /\ op_i' = op_i + 1
                /\ UNCHANGED spc
           ELSE /\ spc' = "crashed"
                /\ UNCHANGED <<new_seq, qstart, rstart, op_i>>
    /\ UNCHANGED <<read_pool, block_size, rlen, sam_line, operations,
                   block_lines_sites_list, seq_flat, seq_out>>
    /\ UNCHANGED notSamVars

\* The end of get_one_string: the right padding, and the string returned.
FinishString ==
    /\ spc = "ops"
    /\ op_i > Len(operations)
    /\ new_seq' = new_seq \o Repeat("*", rlen - Len(new_seq))
    /\ block_lines_sites_list' = Append(block_lines_sites_list, new_seq')
    /\ spc' = "block"
    /\ UNCHANGED <<read_pool, block_size, rlen, sam_line, operations, op_i,
                   qstart, rstart, seq_flat, seq_out>>
    /\ UNCHANGED notSamVars

\* get_seq_from_block once every line has its string: a None among them is a
\* TypeError in list(None) or in re.findall.
GetSeqFromBlock ==
    /\ spc = "block"
    /\ Len(block_lines_sites_list) = block_size
    /\ IF \E i \in 1..block_size : block_lines_sites_list[i] = None
       THEN /\ spc' = "crashed"
            /\ UNCHANGED <<seq_flat, seq_out>>
       ELSE /\ seq_flat' = IF block_size = 1 THEN block_lines_sites_list[1]
                           ELSE Flattened(block_lines_sites_list)
            /\ seq_out' = swap_in_gaps_Ns(seq_flat')
            /\ spc' = "done"
    /\ UNCHANGED <<read_pool, block_size, rlen, sam_line, operations, op_i,
                   new_seq, qstart, rstart, block_lines_sites_list>>
    /\ UNCHANGED notSamVars

\* A call of swap_in_gaps_Ns on its own.
SwapInGapsNs ==
    /\ spc = "swap"
    /\ seq_out' = swap_in_gaps_Ns(seq_flat)
    /\ spc' = "done"
    /\ UNCHANGED <<read_pool, block_size, rlen, sam_line, operations, op_i,
                   new_seq, qstart, rstart, block_lines_sites_list, seq_flat>>
    /\ UNCHANGED notSamVars

SamNext ==
    \/ GetOneString
    \/ ApplyOperation
    \/ FinishString
    \/ GetSeqFromBlock

InitRead == SamInitRead /\ CurIdle /\ GisIdle /\ AdmIdle /\ AnonIdle

SpecRead == InitRead /\ [][SamNext]_vars

InitBlock == SamInitBlock /\ CurIdle /\ GisIdle /\ AdmIdle /\ AnonIdle

SpecBlock == InitBlock /\ [][SamNext]_vars

InitSwap == SamInitSwap /\ CurIdle /\ GisIdle /\ AdmIdle /\ AnonIdle

SwapNext == SwapInGapsNs

SpecSwap == InitSwap /\ [][SwapNext]_vars

----------------------------------------------------------------------------
(* Claims about sam_2_fasta.py                                             *)

\* The characters the reads of the block hold at reference column c.
SiteAt(c) == [i \in 1..Len(block_lines_sites_list) |-> block_lines_sites_list[i][c]]

\* The reads that supply an alphabetic base at column c.
Suppliers(c) == {i \in 1..Len(block_lines_sites_list) : IsAlpha(SiteAt(c)[i])}

\* A block of two or more reads has been merged.
Merged == spc = "done" /\ read_pool = "block" /\ block_size >= 2

\* C4 as stated: in a merged block of two or more reads, at every reference
\* column, reads that supply a base and agree give that base, two reads that
\* supply different bases give '&', a single supplied base wins over gaps and
\* sentinels, and a gap wins over the sentinel.
C4_AgreeingReadsKeepBase ==
    Merged =>
        \A c \in 1..Len(seq_out) :
            LET site  == SiteAt(c)
                bases == {site[i] : i \in Suppliers(c)}
            IN  /\ Cardinality(bases) = 1 => seq_out[c] \in bases
                /\ Cardinality(bases) > 1 => seq_out[c] = "&"
                /\ (bases = {} /\ \E i \in 1..Len(site) : site[i] = "-")
                       => seq_out[c] = "-"

\* C4 as amended: at every reference column, two or more reads that supply a
\* base give '&' whether or not the bases agree, exactly one supplied base is
\* kept, and with no base supplied a gap wins over the sentinel.
C4_OverlapIsAmbiguous ==
    Merged =>
        \A c \in 1..Len(seq_out) :
            LET site == SiteAt(c)
            IN  /\ Cardinality(Suppliers(c)) > 1 => seq_out[c] = "&"
                /\ Cardinality(Suppliers(c)) = 1
                       => \A i \in Suppliers(c) : seq_out[c] = site[i]
                /\ (Suppliers(c) = {} /\ \E i \in 1..Len(site) : site[i] = "-")
                       => seq_out[c] = "-"

\* C4 witness: a merged block with a column where two reads supply the same
\* base, merged to '&', and a column where exactly one read supplies a base.
C4_Witness ==
    /\ Merged
    /\ \E c \in 1..Len(seq_out) :
          /\ Cardinality(Suppliers(c)) = 2
          /\ Cardinality({SiteAt(c)[i] : i \in Suppliers(c)}) = 1
          /\ seq_out[c] = "&"
    /\ \E c \in 1..Len(seq_out) :
          /\ Cardinality(Suppliers(c)) = 1
          /\ IsAlpha(seq_out[c])

\* The first and last index of the run of '*' that holds index i of seq.
RECURSIVE RunFirst(_, _)
RunFirst(seq, i) == IF i > 1 /\ seq[i - 1] = "*" THEN RunFirst(seq, i - 1) ELSE i

RECURSIVE RunLast(_, _)
RunLast(seq, i) == IF i < Len(seq) /\ seq[i + 1] = "*" THEN RunLast(seq, i + 1) ELSE i

\* What C5 says swap_in_gaps_Ns leaves at index i of seq.
NormalizedAt(seq, i) ==
    IF seq[i] # "*" THEN seq[i]
    ELSE LET a == RunFirst(seq, i)
             b == RunLast(seq, i)
             letterBefore == a > 1 /\ IsAlpha(seq[a - 1])
             letterAfter  == b < Len(seq) /\ IsAlpha(seq[b + 1])
         IN  IF letterBefore /\ letterAfter THEN "N"
             ELSE IF a = 1 /\ letterAfter THEN "-"
             ELSE IF b = Len(seq) /\ letterBefore THEN "-"
             ELSE "*"

\* C5: swap_in_gaps_Ns turns every run of '*' strictly between two letters
\* into 'N's, a run at the very start followed by a letter and a run at the
\* very end preceded by a letter into '-'s, and leaves the length and every
\* other character as they were.
C5_SwapRewritesEveryRun ==
    (spc = "done" /\ read_pool = "none") =>
        /\ Len(seq_out) = Len(seq_flat)
        /\ \A i \in 1..Len(seq_flat) : seq_out[i] = NormalizedAt(seq_flat, i)

\* The reference and query bases the operations of a CIGAR string consume.
RECURSIVE RefConsumed(_)
RefConsumed(ops) ==
    IF ops = <<>> THEN 0
    ELSE (IF Head(ops)[1] \in {"M", "=", "X", "D", "N"} THEN Head(ops)[2] ELSE 0)
         + RefConsumed(Tail(ops))

RECURSIVE QueryConsumed(_)
QueryConsumed(ops) ==
    IF ops = <<>> THEN 0
    ELSE (IF Head(ops)[1] \in {"M", "=", "X", "I", "S"} THEN Head(ops)[2] ELSE 0)
         + QueryConsumed(Tail(ops))

\* What C10 says the operations ops contribute, the query cursor being at q.
RECURSIVE CigarBody(_, _, _)
CigarBody(ops, q, seq) ==
    IF ops = <<>> THEN <<>>
    ELSE LET op == Head(ops)[1]
             n  == Head(ops)[2]
         IN  IF op \in {"M", "=", "X"}
             THEN SubSeq(seq, q + 1, q + n) \o CigarBody(Tail(ops), q + n, seq)
             ELSE IF op \in {"D", "N"}
             THEN Repeat("-", n) \o CigarBody(Tail(ops), q, seq)
             ELSE IF op \in {"I", "S"}
             THEN CigarBody(Tail(ops), q + n, seq)
             ELSE CigarBody(Tail(ops), q, seq)

\* The precondition of C10 on a line.
FitsReference(line) ==
    /\ line.POS >= 0
    /\ line.POS + RefConsumed(line.cigar_ops) <= rlen
    /\ Len(line.SEQ) >= QueryConsumed(line.cigar_ops)

\* C10: for a read with POS >= 0 that fits inside the reference and whose SEQ
\* covers the query bases of its CIGAR, the string built so far is as long as
\* the reference cursor after every operation, and the string returned has
\* length rlen and is POS sentinels, then what each operation contributes (SEQ
\* characters for M/=/X, gaps for D/N, nothing for I/S/H/P), then sentinels.
C10_OneStringFollowsCigar ==
    /\ (spc = "ops" /\ FitsReference(sam_line)) => Len(new_seq) = rstart
    /\ (/\ spc = "block"
        /\ read_pool = "rich"
        /\ Len(block_lines_sites_list) = 1
        /\ FitsReference(sam_line))
       => LET body == Repeat("*", sam_line.POS)
                      \o CigarBody(sam_line.cigar_ops, 0, sam_line.SEQ)
          IN  /\ Len(block_lines_sites_list[1]) = rlen
              /\ block_lines_sites_list[1] = body \o Repeat("*", rlen - Len(body))


\* The strings of the block's reads that are not absent.
PresentStrings ==
    Pick(block_lines_sites_list,
         {i \in 1..Len(block_lines_sites_list) : block_lines_sites_list[i] # None}, 1)

\* C16: a read whose mapping position is negative yields an absent result
\* from get_one_string, and get_seq_from_block on a block with such a read
\* does not fail: it returns the consensus of the remaining reads.
C16_AbsentReadLeftOut ==
    \A i \in 1..Len(block_lines_sites_list) :
        (/\ spc \in {"done", "crashed"}
         /\ Len(block_lines_sites_list) = block_size
         /\ block_lines_sites_list[i] = None)
        => /\ spc = "done"
           /\ seq_out = swap_in_gaps_Ns(IF Len(PresentStrings) = 1
                                        THEN PresentStrings[1]
                                        ELSE Flattened(PresentStrings))

----------------------------------------------------------------------------
(* gisaid_json_2_metadata.py                                               *)
(*                                                                         *)
(* A record is a function from field names to text.  A field value is a    *)
(* sequence of symbols: "/", " " and "," are symbols of their own, a place *)
(* name or an accession ID is one symbol, and a collection date is written *)
(* out character by character (it is matched against a regular            *)
(* expression).  A line of a CSV file is the text of its values joined     *)
(* with ",".                                                               *)

\* Bounds of the converter's inputs.
MaxCsvRows == 2
MaxJsonRecs == 2
MaxLocLen == 5

fields_gisaid ==
    <<"covv_accession_id", "covv_virus_name", "covv_location", "covv_collection_date",
      "covv_add_host_info", "covv_assembly_method", "covv_gender", "covv_host",
      "covv_passage", "covv_patient_age", "covv_seq_technology",
      "covv_specimen", "covv_subm_date">>

fields_edin ==
    <<"edin_admin_0", "edin_admin_1", "edin_admin_2",
      "edin_lineage", "edin_travel",
      "edin_omitted", "edin_date_stamp", "edin_flag">>

\* The value of the module-level list `fields` when the module is loaded.
FieldsAtImport == <<"edin_epi_week", "edin_annotation">>

\* The elements of a list, as a set.
Range(list) == {list[i] : i \in 1..Len(list)}

Whitespace == {" "}

\* s.rstrip()
RECURSIVE Rstrip(_)
Rstrip(s) == IF s # <<>> /\ s[Len(s)] \in Whitespace
             THEN Rstrip(SubSeq(s, 1, Len(s) - 1))
             ELSE s

\* s.strip()
Strip(s) == Rstrip(Lstrip(s, Whitespace))

\* s.split(sep) for a one-symbol separator.
RECURSIVE Split(_, _)
Split(s, sep) ==
    IF \A i \in 1..Len(s) : s[i] # sep THEN <<s>>
    ELSE LET i == CHOOSE i \in 1..Len(s) :
                      s[i] = sep /\ \A j \in 1..(i - 1) : s[j] # sep
         IN  <<SubSeq(s, 1, i - 1)>> \o Split(SubSeq(s, i + 1, Len(s)), sep)

\* sep.join(list) for a one-symbol separator.
RECURSIVE Join(_, _)
Join(list, sep) ==
    IF list = <<>> THEN <<>>
    ELSE IF Len(list) = 1 THEN list[1]
    ELSE list[1] \o <<sep>> \o Join(Tail(list), sep)

\* s.replace(c, '') for a one-symbol c.
Remove(s, c) == Pick(s, {i \in 1..Len(s) : s[i] # c}, 1)

\* d[key] = value
Assign(d, key, value) ==
    [k \in (DOMAIN d) \cup {key} |-> IF k = key THEN value ELSE d[k]]

\* {x: y for x, y in zip(keys, l)}: a repeated key keeps its last value.
ZipDict(keys, l) ==
    LET n == IF Len(keys) < Len(l) THEN Len(keys) ELSE Len(l)
    IN  [k \in {keys[i] : i \in 1..n} |->
            l[CHOOSE i \in 1..n : keys[i] = k /\ \A j \in (i + 1)..n : keys[j] # k]]

fix_gisaid_json_dict(d) == [x \in DOMAIN d |-> Remove(d[x], ",")]

expand_dict(dict, fields_list_required, fields_list_optional) ==
    [x \in (DOMAIN dict) \cup Range(fields_list_required) \cup Range(fields_list_optional) |->
        IF x \in DOMAIN dict THEN dict[x] ELSE <<>>]

\* The flag codes are joined with ":" (lines 106-109 and 254-257).
AppendFlag(flag, code) ==
    IF Len(flag) = 0 THEN <<code>> ELSE flag \o <<":", code>>

HomeNations == {<<"England">>, <<"Northern Ireland">>, <<"Scotland">>, <<"Wales">>}

KnownExceptions ==
    {<<"Iran">>, <<"South Korea">>, <<"Russia">>, <<"Korea">>,
     <<"Democratic Republic of the Congo">>}

\* The country names pycountry.countries.lookup finds, among those the
\* model's records can name; it raises LookupError for any other text.
Countries == {<<"United Kingdom">>, <<"USA">>, <<"France">>}

\* [x.strip() for x in covv_location.split("/")], padded to four strings.
RECURSIVE Pad4(_)
Pad4(location_strings) ==
    IF Len(location_strings) < 4 THEN Pad4(Append(location_strings, <<>>))
    ELSE location_strings

LocationStrings(covv_location) ==
    LET parts == Split(covv_location, "/")
    IN  Pad4([i \in 1..Len(parts) |-> Strip(parts[i])])

\* A variant of AdminLevels that renames the country of a home nation but
\* leaves the subdivisions where they were.
AdminLevelsUnshifted(location_strings) ==
    LET country == location_strings[2]
    IN  IF country \in HomeNations
        THEN <<<<"United Kingdom">>, location_strings[3], location_strings[4]>>
        ELSE IF country = <<"Alaska">>
        THEN <<<<"USA">>, location_strings[3], location_strings[4]>>
        ELSE <<country, location_strings[3], location_strings[4]>>

\* Lines 80-93: <<country, subdivision, subsubdivision>>.
AdminLevels(location_strings) ==
    LET country == location_strings[2]
    IN  IF country \in HomeNations
        THEN <<<<"United Kingdom">>, location_strings[2], location_strings[3]>>
        ELSE IF country = <<"Alaska">>
        THEN <<<<"USA">>, location_strings[2], location_strings[3]>>
        ELSE <<country, location_strings[3], location_strings[4]>>

\* Lines 111-118.
FinalCountry(country) ==
    IF country = <<"United Kingdom">> THEN <<"UK">>
    ELSE IF country = <<"Korea">> THEN <<"South Korea">>
    ELSE IF country = <<"Democratic Republic of the Congo">> THEN <<"DRC">>
    ELSE country

\* What a call returns when it raises instead.
Raised == [raised |-> TRUE]

IsRaised(result) == "raised" \in DOMAIN result

\* The parameter `warnings` (True at every call) hides the module of that
\* name, so warnings.warn at line 103 raises AttributeError: the call never
\* gets to append check_country.
get_admin_levels_from_json_dict(d) ==
    LET levels == AdminLevels(LocationStrings(d["covv_location"]))
        country == levels[1]
    IN  IF country \notin KnownExceptions /\ country \notin Countries
        THEN Raised
        ELSE Assign(Assign(Assign(d, "edin_admin_0", FinalCountry(country)),
                           "edin_admin_1", levels[2]),
                    "edin_admin_2", levels[3])

\* re.search('\d{4}-\d{2}-\d{2}', date)
DateMatchAt(date, i) ==
    /\ i + 9 <= Len(date)
    /\ \A k \in {0, 1, 2, 3, 5, 6, 8, 9} : date[i + k] \in DigitSet
    /\ date[i + 4] = "-"
    /\ date[i + 7] = "-"

check_gisaid_date(dict) ==
    IF \E i \in 1..Len(dict["covv_collection_date"]) :
           DateMatchAt(dict["covv_collection_date"], i)
    THEN dict
    ELSE Assign(dict, "edin_flag", AppendFlag(dict["edin_flag"], "check_date"))

\* omit_set is False or a set of IDs; False and the empty set are both falsy
\* at line 283, and both are modelled as {}.
update_edin_omitted_field(dict, omit_set) ==
    IF omit_set # {} /\ dict["covv_accession_id"] \in omit_set
    THEN Assign(dict, "edin_omitted", <<"True">>)
    ELSE dict

update_edin_date_stamp_field(dict, mydate) == Assign(dict, "edin_date_stamp", mydate)

\* Raises IndexError when the ID is not in the table and covv_virus_name has
\* fewer than three "/"-separated parts.
update_edin_lineage_field(dict, lineage_dict) ==
    LET ID == dict["covv_accession_id"]
        name == Split(dict["covv_virus_name"], "/")
    IN  IF ID \in DOMAIN lineage_dict
        THEN Assign(dict, "edin_lineage", lineage_dict[ID])
        ELSE IF Len(name) < 3 THEN Raised
        ELSE IF name[3] \in DOMAIN lineage_dict
        THEN Assign(dict, "edin_lineage", lineage_dict[name[3]])
        ELSE dict

\* datafunk.travel_history.get_travel_history: the record comes back with
\* edin_travel, and possibly edin_flag, filled in.  found is what its lookup
\* tables yield for the record: no travel signal, a place, or a place and a
\* flag code.
TravelFound == {"none", "place", "flagged"}

get_travel_history(dict, found) ==
    IF found = "none" THEN dict
    ELSE IF found = "place" THEN Assign(dict, "edin_travel", <<"Wuhan">>)
    ELSE Assign(Assign(dict, "edin_travel", <<"Wuhan">>),
                "edin_flag", AppendFlag(dict["edin_flag"], "check_travel"))

get_one_line(dict, fields_list) ==
    Join([i \in 1..Len(fields_list) |-> dict[fields_list[i]]], ",")

\* write_output: the header, the registry's rows, the new rows.
write_output(new_list, new_dict, old_list, old_dict, fields_list) ==
    <<Join([i \in 1..Len(fields_list) |-> <<fields_list[i]>>], ",")>>
    \o [i \in 1..Len(old_list) |-> get_one_line(old_dict[old_list[i]], fields_list)]
    \o [i \in 1..Len(new_list) |-> get_one_line(new_dict[new_list[i]], fields_list)]

\* ---- the inputs the converter is run on

EPI1 == <<"EPI_ISL_000001">>

EPI2 == <<"EPI_ISL_000002">>

AccessionIDs == {EPI1, EPI2}

GoodDate == <<"2", "0", "2", "0", "-", "0", "1", "-", "0", "5">>

BadDate == <<"2", "0", "2", "0", "-", "1", "-", "5">>

\* str(datetime.date(datetime.now())) on the day of the run.
Today == <<"2", "0", "2", "0", "-", "0", "4", "-", "0", "1">>

VirusName == <<"hCoV-19", "/", "England", "/", "X1", "/", "2020">>

LocEngland == <<"Europe", " ", "/", " ", "England", " ", "/", " ", "Greater London">>

LocNarnia == <<"Europe", " ", "/", " ", "Narnia">>

LocIran == <<"Asia", " ", "/", " ", "Iran">>

LocFrance == <<"Europe", " ", "/", " ", "France", " ", "/", " ", "Paris", ",", "Ile">>

\* One object of the JSON dump.
JsonObj(id, location, date, name) ==
    [k \in {"covv_accession_id", "covv_virus_name", "covv_location",
            "covv_collection_date"} |->
        IF k = "covv_accession_id" THEN id
        ELSE IF k = "covv_virus_name" THEN name
        ELSE IF k = "covv_location" THEN location
        ELSE date]

\* An object that also has a submission date, written with a space after it.
JsonObjSubmitted ==
    [k \in {"covv_accession_id", "covv_virus_name", "covv_location",
            "covv_collection_date", "covv_subm_date"} |->
        IF k = "covv_subm_date" THEN Today \o <<" ">>
        ELSE JsonObj(EPI1, LocEngland, GoodDate, VirusName)[k]]

JsonObjs ==
    {JsonObj(id, LocEngland, GoodDate, VirusName) : id \in AccessionIDs}
    \cup {JsonObj(id, LocNarnia, GoodDate, VirusName) : id \in AccessionIDs}
    \cup {JsonObj(id, LocIran, BadDate, VirusName) : id \in AccessionIDs}
    \cup {JsonObj(id, LocFrance, BadDate, <<"hCoV-19">>) : id \in AccessionIDs}
    \cup {JsonObjSubmitted}

\* The header this converter writes, the same with one more column, and one
\* that lacks a mandatory column.
HeaderWritten == fields_edin \o FieldsAtImport \o fields_gisaid

HeaderExtra == Append(HeaderWritten, "sample_note")

HeaderMissing == Tail(HeaderWritten)

Headers == {HeaderWritten, HeaderExtra, HeaderMissing}

\* A row of an existing registry, by column name.  Kind 1 was flagged by an
\* earlier run; kind 2 carries derived values an enrichment would not give.
RegistryRow(id, kind) ==
    [k \in Range(HeaderExtra) |->
        IF k = "covv_accession_id" THEN id
        ELSE IF k = "covv_location" THEN (IF kind = 1 THEN LocIran ELSE LocEngland)
        ELSE IF k = "covv_collection_date" THEN (IF kind = 1 THEN BadDate ELSE GoodDate)
        ELSE IF k = "covv_virus_name" THEN VirusName
        ELSE IF k = "edin_admin_0" THEN (IF kind = 1 THEN <<"Iran">> ELSE <<"England">>)
        ELSE IF k = "edin_flag" THEN (IF kind = 1 THEN <<"check_date">> ELSE <<>>)
        ELSE IF k = "edin_date_stamp" THEN GoodDate
        ELSE IF k = "sample_note" THEN (IF kind = 1 THEN <<"note">> ELSE <<>>)
        ELSE <<>>]

\* The lines a registry with the given header may hold: well-formed rows,
\* and a row that is one value short.
CsvLines(keys) ==
    {get_one_line(RegistryRow(id, kind), keys) : id \in AccessionIDs, kind \in {1, 2}}
    \cup {get_one_line(RegistryRow(EPI1, 1), Tail(keys))}

\* A parsed lineage file: keyed by accession ID or by virus-name part.
LineageTable ==
    [k \in {EPI1, <<"X1">>} |-> IF k = EPI1 THEN <<"B.1">> ELSE <<"A">>]

\* The column names of a split header line.
ColumnNames(l) == [i \in 1..Len(l) |-> IF l[i] = <<>> THEN "" ELSE l[i][1]]

\* Lines 363-366.
RECURSIVE AddOptionalFields(_, _)
AddOptionalFields(optional, csv_header) ==
    IF csv_header = <<>> THEN optional
    ELSE LET x == Head(csv_header)
         IN  AddOptionalFields(
                 IF ~ In(x, fields_gisaid \o fields_edin) /\ ~ In(x, optional)
                 THEN Append(optional, x) ELSE optional,
                 Tail(csv_header))

NewKeys == Range(new_records_list)

GisInit ==
    /\ gpc = "start"
    /\ gerror = "none"
    /\ fields = FieldsAtImport
    /\ args_csv = "False"
    /\ csv_file = <<>>
    /\ json_file = <<>>
    /\ omitted_IDs = {}
    /\ args_lineages = FALSE
    /\ lineages = <<>>
    /\ csv_keys = <<>>
    /\ old_records_list = <<>>
    /\ old_records_dict = <<>>
    /\ all_records_list = <<>>
    /\ all_records_dict = <<>>
    /\ new_records_list = <<>>
    /\ output = <<>>
    /\ invocation = 1
    /\ rerun = FALSE
    /\ given_csv = <<>>
    /\ given_json = <<>>

\* The headers, registry lines and dump records an invocation may be given:
\* those of the pools or, for a rerun, those of the invocation before.
HeaderPool ==
    IF rerun THEN {ColumnNames(Split(given_csv[1], ","))} ELSE Headers

RegistryPool(keys) ==
    IF ~ rerun THEN CsvLines(keys)
    ELSE IF Len(csv_file) < Len(given_csv) THEN {given_csv[Len(csv_file) + 1]}
    ELSE {}

\* The omissions and the choice of a lineage file: a rerun is given those of
\* the invocation before.
OmitPool == IF rerun THEN {omitted_IDs} ELSE {{}, {EPI2}}

LineagesPool == IF rerun THEN {args_lineages} ELSE BOOLEAN

DumpPool ==
    IF ~ rerun THEN JsonObjs
    ELSE IF Len(json_file) < Len(given_json) THEN {given_json[Len(json_file) + 1]}
    ELSE {}

\* Lines 344-366: the arguments, the header check, and the optional columns
\* of the registry's header, which are appended to the module-level list.
StartConverter ==
    /\ gpc = "start"
    /\ \E csv \in {"False", "registry.csv"}, columns \in HeaderPool,
          omit \in OmitPool, lin \in LineagesPool :
        LET line == Join([i \in 1..Len(columns) |-> <<columns[i]>>], ",")
            csv_header == ColumnNames(Split(Strip(line), ","))
        IN  /\ IF rerun THEN csv = "registry.csv"
               ELSE csv = "False" => columns = HeaderWritten
            /\ omitted_IDs' = omit
            /\ args_lineages' = lin
            /\ lineages' = IF lin THEN LineageTable ELSE <<>>
            /\ args_csv' = csv
            /\ IF csv = "False"
               THEN /\ gpc' = "json"
                    /\ UNCHANGED <<gerror, fields, csv_file, csv_keys>>
               ELSE IF ~ \A x \in Range(fields_gisaid \o fields_edin) : In(x, csv_header)
               THEN /\ gpc' = "exited"
                    /\ gerror' = "MissingRequiredColumn"
                    /\ csv_file' = <<line>>
                    /\ UNCHANGED <<fields, csv_keys>>
               ELSE /\ gpc' = "csv"
                    /\ fields' = AddOptionalFields(fields, csv_header)
                    /\ csv_file' = <<line>>
                    /\ csv_keys' = csv_header
                    /\ UNCHANGED gerror
    /\ UNCHANGED <<json_file, old_records_list, old_records_dict, all_records_list,
                   all_records_dict, new_records_list, output>>
    /\ UNCHANGED notGisVars

\* Lines 182-197: one more line of the registry.  A line with the wrong
\* number of values ends the run: line 190 means to exit, and raises
\* AttributeError when it builds the message from csv_file.csv.
ReadCsvLine ==
    /\ gpc = "csv"
    /\ rerun \/ Len(csv_file) - 1 < MaxCsvRows
    /\ \E line \in RegistryPool(csv_keys) :
        LET l == Split(Strip(line), ",")
            d == expand_dict(ZipDict(csv_keys, l), fields_gisaid \o fields_edin, fields)
            ID == d["covv_accession_id"]
        IN  /\ csv_file' = Append(csv_file, line)
            /\ IF Len(l) # Len(csv_keys)
               THEN /\ gpc' = "crashed"
                    /\ gerror' = "AttributeError at line 190"
                    /\ UNCHANGED <<old_records_list, old_records_dict>>
               ELSE /\ old_records_list' = Append(old_records_list, ID)
                    /\ old_records_dict' = Assign(old_records_dict, ID, d)
                    /\ UNCHANGED <<gpc, gerror>>
    /\ UNCHANGED <<fields, args_csv, json_file, omitted_IDs, args_lineages, lineages,
                   csv_keys, all_records_list, all_records_dict, new_records_list,
                   output>>
    /\ UNCHANGED notGisVars

\* Line 199: the registry is read.
CsvEof ==
    /\ gpc = "csv"
    /\ rerun => Len(csv_file) = Len(given_csv)
    /\ gpc' = "json"
    /\ UNCHANGED <<gerror, fields, args_csv, csv_file, json_file, omitted_IDs,
                   args_lineages, lineages, csv_keys, old_records_list,
                   old_records_dict, all_records_list, all_records_dict,
                   new_records_list, output>>
    /\ UNCHANGED notGisVars

\* Lines 213-220: one more object of the dump.
ReadJsonLine ==
    /\ gpc = "json"
    /\ rerun \/ Len(json_file) < MaxJsonRecs
    /\ \E jsonObj \in DumpPool :
        LET d == expand_dict(fix_gisaid_json_dict(jsonObj),
                             fields_gisaid \o fields_edin, fields)
            ID == d["covv_accession_id"]
        IN  /\ json_file' = Append(json_file, jsonObj)
            /\ all_records_list' = Append(all_records_list, ID)
            /\ all_records_dict' = Assign(all_records_dict, ID, d)
    /\ UNCHANGED <<gpc, gerror, fields, args_csv, csv_file, omitted_IDs, args_lineages,
                   lineages, csv_keys, old_records_list, old_records_dict,
                   new_records_list, output>>
    /\ UNCHANGED notGisVars

\* Lines 222 and 385-389: the dump is read; the new records are those whose
\* ID is not in the registry.
JsonEof ==
    /\ gpc = "json"
    /\ rerun => Len(json_file) = Len(given_json)
    /\ new_records_list' =
           Pick(all_records_list,
                {i \in 1..Len(all_records_list) :
                     all_records_list[i] \notin Range(old_records_list)}, 1)
    /\ gpc' = "omitted"
    /\ UNCHANGED <<gerror, fields, args_csv, csv_file, json_file, omitted_IDs,
                   args_lineages, lineages, csv_keys, old_records_list,
                   old_records_dict, all_records_list, all_records_dict, output>>
    /\ UNCHANGED notGisVars

\* Line 392.
UpdateOmitted ==
    /\ gpc = "omitted"
    /\ all_records_dict' =
           [x \in DOMAIN all_records_dict |->
               IF x \in NewKeys
               THEN update_edin_omitted_field(all_records_dict[x], omitted_IDs)
               ELSE all_records_dict[x]]
    /\ gpc' = "date_stamp"
    /\ UNCHANGED <<gerror, fields, args_csv, csv_file, json_file, omitted_IDs,
                   args_lineages, lineages, csv_keys, old_records_list,
                   old_records_dict, all_records_list, new_records_list, output>>
    /\ UNCHANGED notGisVars

\* Line 395.
UpdateDateStamp ==
    /\ gpc = "date_stamp"
    /\ all_records_dict' =
           [x \in DOMAIN all_records_dict |->
               IF x \in NewKeys
               THEN update_edin_date_stamp_field(all_records_dict[x], Today)
               ELSE all_records_dict[x]]
    /\ gpc' = "admin"
    /\ UNCHANGED <<gerror, fields, args_csv, csv_file, json_file, omitted_IDs,
                   args_lineages, lineages, csv_keys, old_records_list,
                   old_records_dict, all_records_list, new_records_list, output>>
    /\ UNCHANGED notGisVars

\* Line 398: an exception raised for one record ends the run.
GetAdminLevels ==
    /\ gpc = "admin"
    /\ IF \E x \in NewKeys : IsRaised(get_admin_levels_from_json_dict(all_records_dict[x]))
       THEN /\ gpc' = "crashed"
            /\ gerror' = "AttributeError"
            /\ UNCHANGED all_records_dict
       ELSE /\ gpc' = "check_date"
            /\ all_records_dict' =
                   [x \in DOMAIN all_records_dict |->
                       IF x \in NewKeys
                       THEN get_admin_levels_from_json_dict(all_records_dict[x])
                       ELSE all_records_dict[x]]
            /\ UNCHANGED gerror
    /\ UNCHANGED <<fields, args_csv, csv_file, json_file, omitted_IDs, args_lineages,
                   lineages, csv_keys, old_records_list, old_records_dict,
                   all_records_list, new_records_list, output>>
    /\ UNCHANGED notGisVars

\* Line 401.
CheckDates ==
    /\ gpc = "check_date"
    /\ all_records_dict' =
           [x \in DOMAIN all_records_dict |->
               IF x \in NewKeys THEN check_gisaid_date(all_records_dict[x])
               ELSE all_records_dict[x]]
    /\ gpc' = "travel"
    /\ UNCHANGED <<gerror, fields, args_csv, csv_file, json_file, omitted_IDs,
                   args_lineages, lineages, csv_keys, old_records_list,
                   old_records_dict, all_records_list, new_records_list, output>>
    /\ UNCHANGED notGisVars

\* Line 404.
GetTravelHistory ==
    /\ gpc = "travel"
    /\ \E found \in [NewKeys -> TravelFound] :
           all_records_dict' =
               [x \in DOMAIN all_records_dict |->
                   IF x \in NewKeys THEN get_travel_history(all_records_dict[x], found[x])
                   ELSE all_records_dict[x]]
    /\ gpc' = IF args_lineages THEN "lineage" ELSE "write"
    /\ UNCHANGED <<gerror, fields, args_csv, csv_file, json_file, omitted_IDs,
                   args_lineages, lineages, csv_keys, old_records_list,
                   old_records_dict, all_records_list, new_records_list, output>>
    /\ UNCHANGED notGisVars

\* Lines 407-408: an exception raised for one record ends the run.
UpdateLineages ==
    /\ gpc = "lineage"
    /\ IF \E x \in NewKeys : IsRaised(update_edin_lineage_field(all_records_dict[x], lineages))
       THEN /\ gpc' = "crashed"
            /\ gerror' = "IndexError"
            /\ UNCHANGED all_records_dict
       ELSE /\ gpc' = "write"
            /\ all_records_dict' =
                   [x \in DOMAIN all_records_dict |->
                       IF x \in NewKeys
                       THEN update_edin_lineage_field(all_records_dict[x], lineages)
                       ELSE all_records_dict[x]]
            /\ UNCHANGED gerror
    /\ UNCHANGED <<fields, args_csv, csv_file, json_file, omitted_IDs, args_lineages,
                   lineages, csv_keys, old_records_list, old_records_dict,
                   all_records_list, new_records_list, output>>
    /\ UNCHANGED notGisVars

\* Lines 410-415.
WriteOutput ==
    /\ gpc = "write"
    /\ output' = write_output(new_records_list, all_records_dict, old_records_list,
                              old_records_dict, fields_edin \o fields \o fields_gisaid)
    /\ gpc' = "done"
    /\ UNCHANGED <<gerror, fields, args_csv, csv_file, json_file, omitted_IDs,
                   args_lineages, lineages, csv_keys, old_records_list,
                   old_records_dict, all_records_list, all_records_dict,
                   new_records_list>>
    /\ UNCHANGED notGisVars

GisNext ==
    \/ StartConverter
    \/ ReadCsvLine
    \/ CsvEof
    \/ ReadJsonLine
    \/ JsonEof
    \/ UpdateOmitted
    \/ UpdateDateStamp
    \/ GetAdminLevels
    \/ CheckDates
    \/ GetTravelHistory
    \/ UpdateLineages
    \/ WriteOutput

InitGisaid == GisInit /\ CurIdle /\ SamIdle /\ AdmIdle /\ AnonIdle

SpecGisaid == InitGisaid /\ [][GisNext]_vars

\* ---- the converter invoked more than once in one process

\* The most invocations of one process.
MaxInvocations == 2

\* gisaid_json_2_metadata has returned and is called again: its locals are
\* new, the module-level list is what the invocation before left.
NewInvocation ==
    /\ gpc = "done"
    /\ invocation < MaxInvocations
    /\ invocation' = invocation + 1
    /\ gpc' = "start"
    /\ gerror' = "none"
    /\ args_csv' = "False"
    /\ csv_file' = <<>>
    /\ json_file' = <<>>
    /\ csv_keys' = <<>>
    /\ old_records_list' = <<>>
    /\ old_records_dict' = <<>>
    /\ all_records_list' = <<>>
    /\ all_records_dict' = <<>>
    /\ new_records_list' = <<>>
    /\ output' = <<>>
    /\ UNCHANGED fields
    /\ UNCHANGED <<curVars, samVars, admVars, anonVars>>

\* The next invocation is given arguments of its own.
RunAgain ==
    /\ NewInvocation
    /\ rerun' = FALSE
    /\ given_csv' = <<>>
    /\ given_json' = <<>>
    /\ omitted_IDs' = {}
    /\ args_lineages' = FALSE
    /\ lineages' = <<>>

\* The next invocation is given the output just written as its registry,
\* the dump just read, and the same omissions and lineage file.
RunOverOutput ==
    /\ NewInvocation
    /\ rerun' = TRUE
    /\ given_csv' = output
    /\ given_json' = json_file
    /\ UNCHANGED <<omitted_IDs, args_lineages, lineages>>

ProcNext ==
    \/ GisNext
    \/ RunAgain

SpecProcess == InitGisaid /\ [][ProcNext]_vars

RerunNext ==
    \/ GisNext
    \/ RunOverOutput

SpecRerun == InitGisaid /\ [][RerunNext]_vars


\* ---- get_admin_levels_from_json_dict, called on one record

LocSymbols == {"/", " ", "Europe", "England", "Wales", "Greater London", "France"}

AdmInit ==
    /\ lpc = "call"
    /\ \E location \in SeqsUpTo(LocSymbols, MaxLocLen) :
           gisaid_json_dict =
               expand_dict(JsonObj(EPI1, location, GoodDate, VirusName),
                           fields_gisaid \o fields_edin, FieldsAtImport)
    /\ admin_result = <<>>

CallGetAdminLevels ==
    /\ lpc = "call"
    /\ admin_result' = get_admin_levels_from_json_dict(gisaid_json_dict)
    /\ lpc' = IF IsRaised(admin_result') THEN "raised" ELSE "returned"
    /\ UNCHANGED gisaid_json_dict
    /\ UNCHANGED notAdmVars

AdmNext == CallGetAdminLevels

InitAdmin == AdmInit /\ CurIdle /\ SamIdle /\ GisIdle /\ AnonIdle

SpecAdmin == InitAdmin /\ [][AdmNext]_vars

----------------------------------------------------------------------------
(* Claims about the converter                                              *)

\* The value in the column called name of a line under the given header.
Field(line, columns, name) ==
    LET l == Split(line, ",")
    IN  l[CHOOSE i \in 1..Len(columns) : columns[i] = name]

\* The registry's rows as they stand in the file, and the IDs they bear.
RegistryRows == IF csv_file = <<>> THEN <<>> ELSE Tail(csv_file)

RegistryIDs ==
    {Field(RegistryRows[i], csv_keys, "covv_accession_id") : i \in 1..Len(RegistryRows)}

\* The dump's objects whose ID is absent from the registry, in dump order.
NewObjs ==
    Pick(json_file, {i \in 1..Len(json_file) :
                         json_file[i]["covv_accession_id"] \notin RegistryIDs}, 1)

WrittenHeader == ColumnNames(Split(output[1], ","))

\* The run is over, and not because the registry was rejected.
ConverterRan ==
    \/ gpc = "done"
    \/ gpc = "crashed" /\ ~ (\E i \in 1..Len(RegistryRows) :
                                Len(Split(RegistryRows[i], ",")) # Len(csv_keys))

\* C2: the converter writes every registry row first, in the original order
\* and with every value unchanged, and then exactly the dump's objects whose
\* accession ID is absent from the registry, enriched, in dump order.
C2_RegistryKeptNewAppended ==
    ConverterRan =>
        /\ Len(output) = 1 + Len(RegistryRows) + Len(NewObjs)
        /\ \A i \in 1..Len(RegistryRows) : \A k \in 1..Len(csv_keys) :
               Field(output[1 + i], WrittenHeader, csv_keys[k])
                   = Field(RegistryRows[i], csv_keys, csv_keys[k])
        /\ \A j \in 1..Len(NewObjs) :
               LET line == output[1 + Len(RegistryRows) + j]
               IN  /\ \A k \in DOMAIN NewObjs[j] :
                          Field(line, WrittenHeader, k) = Remove(NewObjs[j][k], ",")
                   /\ Field(line, WrittenHeader, "edin_date_stamp") = Today

\* The country a record's location names, after the home nations and Alaska
\* are folded into their countries.
CountryOf(record) == AdminLevels(LocationStrings(record["covv_location"]))[1]

CountryFails(record) ==
    CountryOf(record) \notin KnownExceptions /\ CountryOf(record) \notin Countries

\* YYYY-MM-DD
IsoDate(date) == Len(date) = 10 /\ DateMatchAt(date, 1)

FlagCodes(flag) == Range(Split(flag, ":"))

\* C3: a country that fails the lookup and a date that fails the format check
\* never stop the run; each is recorded in edin_flag of the record's written
\* row, and a record passing a check gets no code for it.
C3_IssuesFlaggedInline ==
    /\ ~ (gpc = "crashed" /\ gerror = "AttributeError")
    /\ gpc = "done" =>
           \A x \in NewKeys :
               \E i \in (2 + Len(old_records_list))..Len(output) :
                   LET codes == FlagCodes(Field(output[i], WrittenHeader, "edin_flag"))
                       record == all_records_dict[x]
                   IN  /\ Field(output[i], WrittenHeader, "covv_accession_id") = x
                       /\ <<"check_country">> \in codes <=> CountryFails(record)
                       /\ <<"check_date">> \in codes
                              <=> ~ IsoDate(record["covv_collection_date"])

\* The "/"-separated parts of the location passed in, stripped and padded.
Tokens == LocationStrings(gisaid_json_dict["covv_location"])

\* C6 as stated: a converted location naming a home nation gives
\* edin_admin_0 = 'UK', edin_admin_1 = the part after the home nation and
\* edin_admin_2 = the part after that.
C6_HomeNationPartsFollow ==
    \A k \in 1..2 :
        (lpc = "returned" /\ Tokens[k] \in HomeNations
             /\ \A j \in 1..(k - 1) : Tokens[j] \notin HomeNations)
        => /\ admin_result["edin_admin_0"] = <<"UK">>
           /\ admin_result["edin_admin_1"] = Tokens[k + 1]
           /\ admin_result["edin_admin_2"] = Tokens[k + 2]

\* C6, amended: a location whose second part (the one after the continent)
\* is a home nation gives edin_admin_0 = 'UK', edin_admin_1 = the home nation
\* itself and edin_admin_2 = the part after the home nation.
C6_HomeNationIsAdmin1 ==
    (lpc # "call" /\ Tokens[2] \in HomeNations)
    => /\ lpc = "returned"
       /\ admin_result["edin_admin_0"] = <<"UK">>
       /\ admin_result["edin_admin_1"] = Tokens[2]
       /\ admin_result["edin_admin_2"] = Tokens[3]

\* 'Europe/England/Greater London' has been converted.
C6_Witness ==
    /\ lpc = "returned"
    /\ gisaid_json_dict["covv_location"]
           = <<"Europe", "/", "England", "/", "Greater London">>
    /\ admin_result["edin_admin_1"] = <<"England">>
    /\ admin_result["edin_admin_2"] = <<"Greater London">>


\* The header an invocation writes when the optional-fields list is as it is
\* at import and only the columns of its own registry are added to it.
HeaderFromInputs ==
    LET optional == AddOptionalFields(FieldsAtImport, csv_keys)
        columns  == fields_edin \o optional \o fields_gisaid
    IN  Join([i \in 1..Len(columns) |-> <<columns[i]>>], ",")

\* C15: the converter keeps no mutable state across invocations: the first
\* invocation of a process ends with the optional-fields list as it is at
\* import, and the header any invocation writes is made of the mandatory
\* fields, the optional fields of the import and the extra columns of that
\* invocation's own registry, whatever earlier invocations have read.
C15_NoStateAcrossInvocations ==
    /\ (invocation = 1 /\ gpc \in {"done", "exited", "crashed"})
           => fields = FieldsAtImport
    /\ gpc = "done" => output[1] = HeaderFromInputs

\* C17: a rerun over the previous output and the same dump completes and
\* writes the previous output again: the same header and the same rows in
\* the same order.
C17_RerunReproducesOutput ==
    (rerun /\ gpc \in {"done", "exited", "crashed"})
        => /\ gpc = "done"
           /\ output = given_csv

----------------------------------------------------------------------------
(* anonymize_microreact.py                                                 *)
(*                                                                         *)
(* A sequence name is a text with "/" as a symbol of its own; a pseudonym  *)
(* is written out character by character.  The tree document is a text     *)
(* whose symbols are the symbols of names, the quote "'" and the           *)
(* punctuation of the tree.                                                *)

\* Bounds of the anonymizer's inputs.  random.randint draws from 0..999999;
\* the model draws from 0..RandMax.
MaxRows == 3
MaxTreePieces == 2
RandMax == 2

\* The width of '{:06d}'.
FormatWidth == 6

\* The number of rows below which an adm2 value is redacted.
MinRows == 5

\* '{:0<width>d}'.format(r) for r >= 0
RECURSIVE ZeroPad(_, _)
ZeroPad(s, width) == IF Len(s) < width THEN ZeroPad(<<"0">> \o s, width) ELSE s

\* get_random_name, when random.randint returns r.
get_random_name(r) == <<"C", "O", "G">> \o ZeroPad(Str(r), FormatWidth)

\* No pseudonym drawn yet for the row at hand.
NoName == <<>>

\* A variant of Collides that never asks for another draw.
NeverCollides(name, names) == FALSE

\* Line 58: anonymous_name in random_names
Collides(name, names) == In(name, names)

UKPrefixes == {<<"Wales">>, <<"Scotland">>, <<"Northern_Ireland">>, <<"England">>}

\* Line 56.
IsRedacted(sequence_name) == Split(sequence_name, "/")[1] \in UKPrefixes

NameA == <<"England", "/", "a">>

NameB == <<"Wales", "/", "b">>

NameC == <<"France", "/", "c">>

\* The headers metadata_in may have; the second lacks a required column.
MetaHeaders == {<<"sequence_name", "adm2", "lineage">>, <<"sequence_name", "lineage">>}

\* The rows metadata_in may hold, as lines.
MetaLines ==
    {Join(<<NameA, <<"Kent">>, <<"B.1">>>>, ","),
     Join(<<NameB, <<"Kent">>, <<"B.1">>>>, ","),
     Join(<<NameC, <<"Paris">>, <<"A">>>>, ",")}

\* The tree documents: a few pieces of text, one after the other; a piece is
\* a quoted label, a bare label or a quote.
TreePieces ==
    {<<"'">> \o NameA \o <<"'">>, <<"'">> \o NameB \o <<"'">>, NameA, <<"'">>}

Trees == {Flatten(pieces) : pieces \in SeqsUpTo(TreePieces, MaxTreePieces)}

\* d[key] = value for an insertion-ordered dict.
DictSet(d, key, value) ==
    IF \E i \in 1..Len(d) : d[i][1] = key
    THEN [i \in 1..Len(d) |-> IF d[i][1] = key THEN <<key, value>> ELSE d[i]]
    ELSE Append(d, <<key, value>>)

\* Lines 32-38.
CountLocations(list) == CounterOf([i \in 1..Len(list) |-> list[i]["adm2"]])

\* A variant of AnonymousLocations that also redacts a value seen MinRows times.
AnonymousLocationsInclusive(counts) ==
    {counts[i][1] : i \in {j \in 1..Len(counts) : counts[j][2] <= MinRows}}

\* Lines 40-45.
AnonymousLocations(counts) ==
    {counts[i][1] : i \in {j \in 1..Len(counts) : counts[j][2] < MinRows}}

\* Lines 66-76: the header as it was read, then each row with the anonymized
\* values in the places of sequence_name and adm2.
WriteMetadata(columns, list) ==
    LET new_columns ==
            [i \in 1..Len(columns) |->
                IF columns[i] = "adm2" THEN "anonymized_admn2"
                ELSE IF columns[i] = "sequence_name" THEN "anonymized_sequence_name"
                ELSE columns[i]]
    IN  <<Join([i \in 1..Len(columns) |-> <<columns[i]>>], ",")>>
        \o [e \in 1..Len(list) |->
               Join([i \in 1..Len(new_columns) |-> list[e][new_columns[i]]], ",")]

\* Lines 78-81.
RECURSIVE LabelMappings(_)
LabelMappings(list) ==
    IF list = <<>> THEN <<>>
    ELSE LET entry == list[Len(list)]
             front == LabelMappings(SubSeq(list, 1, Len(list) - 1))
         IN  IF entry["sequence_name"] # entry["anonymized_sequence_name"]
             THEN DictSet(front, entry["sequence_name"],
                          entry["anonymized_sequence_name"])
             ELSE front

\* Lines 85-86.
RECURSIVE ReplaceLabels(_, _)
ReplaceLabels(text, mappings) ==
    IF mappings = <<>> THEN text
    ELSE ReplaceLabels(Replace(text, <<"'">> \o mappings[1][1] \o <<"'">>,
                                     <<"'">> \o mappings[1][2] \o <<"'">>),
                       Tail(mappings))

AnonInit ==
    /\ apc = "header"
    /\ header = <<>>
    /\ metadata_list = <<>>
    /\ admn2_counts = <<>>
    /\ anonymous_locations = {}
    /\ random_names = <<>>
    /\ entry_i = 0
    /\ anonymous_name = NoName
    /\ metadata_out = <<>>
    /\ label_mappings = <<>>
    /\ tree_in = <<>>
    /\ tree = <<>>

\* Lines 17-26: the first line of metadata_in.
ReadHeader ==
    /\ apc = "header"
    /\ \E columns \in MetaHeaders :
        LET line == Join([i \in 1..Len(columns) |-> <<columns[i]>>], ",")
        IN  /\ header' = ColumnNames(Split(Rstrip(line), ","))
            /\ apc' = IF \A x \in {"adm2", "sequence_name"} : In(x, header')
                      THEN "rows" ELSE "exited"
    /\ UNCHANGED <<metadata_list, admn2_counts, anonymous_locations, random_names,
                   entry_i, anonymous_name, metadata_out, label_mappings, tree_in, tree>>
    /\ UNCHANGED notAnonVars

\* Lines 19-29: one more row of metadata_in.
ReadRow ==
    /\ apc = "rows"
    /\ Len(metadata_list) < MaxRows
    /\ \E line \in MetaLines :
           metadata_list' = Append(metadata_list,
                                   ZipDict(header, Split(Rstrip(line), ",")))
    /\ UNCHANGED <<apc, header, admn2_counts, anonymous_locations, random_names,
                   entry_i, anonymous_name, metadata_out, label_mappings, tree_in, tree>>
    /\ UNCHANGED notAnonVars

\* Lines 32-51: the rows are read; count the adm2 values and redact the rare.
RedactLocations ==
    /\ apc = "rows"
    /\ admn2_counts' = CountLocations(metadata_list)
    /\ anonymous_locations' = AnonymousLocations(admn2_counts')
    /\ metadata_list' =
           [e \in 1..Len(metadata_list) |->
               Assign(metadata_list[e], "anonymized_admn2",
                      IF metadata_list[e]["adm2"] \in anonymous_locations'
                      THEN <<>> ELSE metadata_list[e]["adm2"])]
    /\ entry_i' = 1
    /\ apc' = "names"
    /\ UNCHANGED <<header, random_names, anonymous_name, metadata_out, label_mappings,
                   tree_in, tree>>
    /\ UNCHANGED notAnonVars

\* Lines 57 and 59: a first draw for the row, or another after a collision.
GetRandomName ==
    /\ apc = "names"
    /\ entry_i <= Len(metadata_list)
    /\ IsRedacted(metadata_list[entry_i]["sequence_name"])
    /\ anonymous_name = NoName \/ Collides(anonymous_name, random_names)
    /\ \E r \in 0..RandMax : anonymous_name' = get_random_name(r)
    /\ UNCHANGED <<apc, header, metadata_list, admn2_counts, anonymous_locations,
                   random_names, entry_i, metadata_out, label_mappings, tree_in, tree>>
    /\ UNCHANGED notAnonVars

\* Lines 58-62: the draw is unused; the row takes it.
AcceptName ==
    /\ apc = "names"
    /\ entry_i <= Len(metadata_list)
    /\ IsRedacted(metadata_list[entry_i]["sequence_name"])
    /\ anonymous_name # NoName
    /\ ~ Collides(anonymous_name, random_names)
    /\ random_names' = Append(random_names, anonymous_name)
    /\ metadata_list' =
           [metadata_list EXCEPT ![entry_i] =
               Assign(@, "anonymized_sequence_name", anonymous_name)]
    /\ anonymous_name' = NoName
    /\ entry_i' = entry_i + 1
    /\ UNCHANGED <<apc, header, admn2_counts, anonymous_locations, metadata_out,
                   label_mappings, tree_in, tree>>
    /\ UNCHANGED notAnonVars

\* Lines 63-64.
CopyName ==
    /\ apc = "names"
    /\ entry_i <= Len(metadata_list)
    /\ ~ IsRedacted(metadata_list[entry_i]["sequence_name"])
    /\ metadata_list' =
           [metadata_list EXCEPT ![entry_i] =
               Assign(@, "anonymized_sequence_name", @["sequence_name"])]
    /\ entry_i' = entry_i + 1
    /\ UNCHANGED <<apc, header, admn2_counts, anonymous_locations, random_names,
                   anonymous_name, metadata_out, label_mappings, tree_in, tree>>
    /\ UNCHANGED notAnonVars

\* Lines 66-81: the metadata is written and the mapping of the labels built.
WriteMetadataOut ==
    /\ apc = "names"
    /\ entry_i > Len(metadata_list)
    /\ metadata_out' = WriteMetadata(header, metadata_list)
    /\ label_mappings' = LabelMappings(metadata_list)
    /\ apc' = "tree"
    /\ UNCHANGED <<header, metadata_list, admn2_counts, anonymous_locations,
                   random_names, entry_i, anonymous_name, tree_in, tree>>
    /\ UNCHANGED notAnonVars

\* Lines 83-90: the tree is read, its labels replaced, and written.
ReplaceTree ==
    /\ apc = "tree"
    /\ \E text \in Trees :
        /\ tree_in' = text
        /\ tree' = ReplaceLabels(text, label_mappings)
    /\ apc' = "done"
    /\ UNCHANGED <<header, metadata_list, admn2_counts, anonymous_locations,
                   random_names, entry_i, anonymous_name, metadata_out, label_mappings>>
    /\ UNCHANGED notAnonVars

AnonNext ==
    \/ ReadHeader
    \/ ReadRow
    \/ RedactLocations
    \/ GetRandomName
    \/ AcceptName
    \/ CopyName
    \/ WriteMetadataOut
    \/ ReplaceTree

InitAnon == AnonInit /\ CurIdle /\ SamIdle /\ GisIdle /\ AdmIdle

SpecAnon == InitAnon /\ [][AnonNext]_vars

\* ---- the anonymizer on tables long enough for an adm2 value to be kept

\* The longest table of the runs that count adm2 values up to the threshold.
MaxCounted == 6

\* The rows of those tables: one from Kent under a UK name, one from Paris.
CountedLines ==
    {Join(<<NameA, <<"Kent">>, <<"B.1">>>>, ","),
     Join(<<NameC, <<"Paris">>, <<"A">>>>, ",")}

\* Lines 19-29: one more row of metadata_in, of a table of up to MaxCounted rows.
ReadCountedRow ==
    /\ apc = "rows"
    /\ Len(metadata_list) < MaxCounted
    /\ \E line \in CountedLines :
           metadata_list' = Append(metadata_list,
                                   ZipDict(header, Split(Rstrip(line), ",")))
    /\ UNCHANGED <<apc, header, admn2_counts, anonymous_locations, random_names,
                   entry_i, anonymous_name, metadata_out, label_mappings, tree_in, tree>>
    /\ UNCHANGED notAnonVars

RedactNext ==
    \/ ReadHeader
    \/ ReadCountedRow
    \/ RedactLocations
    \/ GetRandomName
    \/ AcceptName
    \/ CopyName
    \/ WriteMetadataOut
    \/ ReplaceTree

InitRedact == AnonInit /\ CurIdle /\ SamIdle /\ GisIdle /\ AdmIdle

SpecRedact == InitRedact /\ [][RedactNext]_vars


----------------------------------------------------------------------------
(* Claims about the anonymizer                                             *)

\* The name written for row e in the metadata output.
WrittenName(e) == Field(metadata_out[1 + e], header, "sequence_name")

\* The rows whose sequence name starts with a UK nation.
RedactedRows ==
    {e \in 1..Len(metadata_list) :
         Split(metadata_list[e]["sequence_name"], "/")[1]
             \in {<<"Wales">>, <<"Scotland">>, <<"Northern_Ireland">>, <<"England">>}}

\* 'COG' and six decimal digits
IsPseudonym(name) ==
    /\ Len(name) = 9
    /\ SubSeq(name, 1, 3) = <<"C", "O", "G">>
    /\ \A i \in 4..9 : name[i] \in DigitSet

Quoted(name) == <<"'">> \o name \o <<"'">>

\* text holds piece somewhere
Occurs(text, piece) ==
    \E i \in 1..(Len(text) - Len(piece) + 1) :
        SubSeq(text, i, i + Len(piece) - 1) = piece

\* C7: for every pseudonymized row, the quoted occurrences of its name in the
\* tree are replaced by the quoted pseudonym written for that row in the
\* metadata output (none is left, and where there was one the row's pseudonym
\* stands in the tree), and a tree without such occurrences is unchanged.
C7_TreeCarriesRowPseudonyms ==
    apc = "done" =>
        /\ \A e \in RedactedRows :
               LET name == Quoted(metadata_list[e]["sequence_name"])
               IN  /\ ~ Occurs(tree, name)
                   /\ Occurs(tree_in, name) => Occurs(tree, Quoted(WrittenName(e)))
        /\ (\A e \in RedactedRows :
                ~ Occurs(tree_in, Quoted(metadata_list[e]["sequence_name"])))
           => tree = tree_in

\* C8: once the metadata is written, every row whose sequence name starts
\* with Wales, Scotland, Northern_Ireland or England carries 'COG' and six
\* digits, no two such rows carry the same pseudonym, and every other row
\* carries its sequence name unchanged.
C8_PseudonymsUnique ==
    apc \in {"tree", "done"} =>
        \A e \in 1..Len(metadata_list) :
            IF e \in RedactedRows
            THEN /\ IsPseudonym(WrittenName(e))
                 /\ \A f \in RedactedRows : f # e => WrittenName(f) # WrittenName(e)
            ELSE WrittenName(e) = metadata_list[e]["sequence_name"]

\* Three rows are written: two bear the same UK name, one is not redacted.
C8_Witness ==
    /\ apc = "done"
    /\ Len(metadata_list) = 3
    /\ metadata_list[1]["sequence_name"] = NameA
    /\ metadata_list[2]["sequence_name"] = NameA
    /\ metadata_list[3]["sequence_name"] = NameC
    /\ WrittenName(1) # WrittenName(2)
    /\ WrittenName(3) = NameC

\* The adm2 value written for row e in the metadata output.
WrittenLocation(e) == Field(metadata_out[1 + e], header, "adm2")

\* The number of rows of the table whose adm2 value is location.
Occurrences(location) ==
    Cardinality({f \in 1..Len(metadata_list) : metadata_list[f]["adm2"] = location})

\* C11: once the metadata is written, each row's redacted location is the
\* empty string when the row's adm2 value occurs fewer than 5 times across the
\* rows of the table, and the row's adm2 value unchanged when it occurs 5 or
\* more times.
C11_RareLocationsRedacted ==
    apc \in {"tree", "done"} =>
        \A e \in 1..Len(metadata_list) :
            /\ metadata_list[e]["anonymized_admn2"] = WrittenLocation(e)
            /\ WrittenLocation(e) =
                   IF Occurrences(metadata_list[e]["adm2"]) < 5
                   THEN EmptyStr ELSE metadata_list[e]["adm2"]

\* A table of six rows is written: Paris occurs five times and is kept, Kent
\* occurs once and is blanked.
C11_Witness ==
    /\ apc = "done"
    /\ Len(metadata_list) = 6
    /\ Occurrences(<<"Paris">>) = 5
    /\ metadata_list[1]["adm2"] = <<"Kent">>
    /\ WrittenLocation(1) = EmptyStr
    /\ \A e \in 2..6 : WrittenLocation(e) = <<"Paris">>

=============================================================================
